---- MODULE Spec2Model ----
(***************************************************************************)
(* Model of the Turbo Console model-selection and provider-dispatch core:  *)
(* catalog construction (services/models), capability inference, the      *)
(* selector, the response normaliser (providers/router) and the rate-limit *)
(* cache (services/rateLimit, utils/headers).                              *)
(*                                                                         *)
(* Text.  Names that the code only compares (providers, buckets, tiers,    *)
(* capability keys, model ids) are TLA+ strings.  Where the code looks     *)
(* inside a string (includes, toLowerCase, parseInt) the string is the     *)
(* sequence of its characters; Chars gives the characters of a model id.   *)
(***************************************************************************)
EXTENDS Integers, Sequences, FiniteSets, TLC

VARIABLES
    phase,        \* position of the modelled request: which operation ran last
    db,           \* the Database snapshot the request loaded
    models,       \* buildModelList(db): the catalog
    req,          \* the constraints / input of the last selector call
    suggestions,  \* result of the last suggestModels call
    picked,       \* result of the last pickModel call
    inferId,      \* characters of the id handed to inferCapabilities
    inferCaps,    \* result of the last inferCapabilities call
    response,     \* the raw provider response handed to extractContent
    extracted,    \* outcome of the last extractContent call
    cache,        \* RateLimitService.cache: key -> CachedRateLimit
    now,          \* Date.now(), in milliseconds
    calls,        \* number of provider calls (cache writes) so far
    lastOp,       \* the last RateLimitService operation and its arguments
    cacheBefore,  \* the cache as it was when the last operation began
    waitTime,     \* result of the last getWaitTime call
    puter,        \* the host's Puter SDK as the process finds it
    usability,    \* the last isModelUsable call: its descriptor and result
    tierStatus,   \* result of the last checkBoostTierExhaustion call
    accountStatus,\* the last GET /account/status: its query and response
    history,      \* HealthService.history: provider -> records
    recorded,     \* every record ever handed to recordCall, per provider
    providerStatus, \* result of the last getProviderStatus call
    environment,  \* process.env: the credential keys that are set
    upstream,     \* what the providers' APIs may answer in this run
    outcome,      \* the last callProvider invocation and how it completed
    runReq,       \* body of the last POST /run
    runRes,       \* response of the last POST /run
    overrides,    \* RatingsService.overrides: model id -> RatingsOverride
    overridesFile,\* the ratings overrides as the persistent store holds them
    ratingRes,    \* the last PATCH /models/:model_id/rating and its response
    dbCache,      \* DatabaseService: cachedDb, lastLoadTime, reads of the store
    dbFile,       \* what the database store holds now
    loaded,       \* the last loadDb / reloadDb call and how it completed
    inflight      \* provider requests whose response has not been processed

selVars     == <<db, models, req, suggestions, picked>>
inferVars   == <<inferId, inferCaps>>
extractVars == <<response, extracted>>
rateVars    == <<cache, now, calls, lastOp, cacheBefore, waitTime>>

acctVars    == <<puter, usability, tierStatus, accountStatus>>
healthVars  == <<history, recorded, providerStatus>>
callVars    == <<environment, upstream, outcome>>
runVars     == <<runReq, runRes>>
storeVars   == <<overrides, overridesFile, ratingRes, dbCache, dbFile, loaded, inflight>>
serviceVars == <<acctVars, healthVars, callVars, runVars, storeVars>>

vars == <<phase, selVars, inferVars, extractVars, rateVars, serviceVars>>

(***************************************************************************)
(* Bounds of the model                                                     *)
(***************************************************************************)
MaxFragments == 2      \* an inferred id is made of at most this many fragments
MaxCompanies == 2      \* companies in a modelled registry
MaxCalls     == 2      \* writes to the rate-limit cache in one run
MaxTicks     == 1      \* seconds that pass in one run

(***************************************************************************)
(* utils/constants.ts                                                      *)
(***************************************************************************)
COST_TIER_ORDER == <<"local", "remote_free", "credit_backed", "paid">>

PROVIDER_BUCKETS ==
    << "direct_api", "openrouter", "togetherai", "groq", "mistral", "cerebras",
       "cloudflare", "huggingface", "gemini", "github", "cohere", "perplexity",
       "puter" >>

CAPABILITY_KEYS ==
    << "chat", "reasoning", "speed", "coding", "images", "audio_speech",
       "audio_music", "vision", "video" >>

Range(s) == { s[i] : i \in 1..Len(s) }

CapabilityKeySet == Range(CAPABILITY_KEYS)

\* Array.prototype.indexOf on COST_TIER_ORDER: 0-based, -1 when absent
indexOf(seq, x) ==
    IF \E i \in 1..Len(seq) : seq[i] = x
    THEN (CHOOSE i \in 1..Len(seq) : seq[i] = x /\ \A j \in 1..(i-1) : seq[j] # x) - 1
    ELSE -1

\* parseRouteKey: the fixed table, unknown keys pass through
parseRouteKey(routeKey) ==
    IF routeKey = "direct_api"
    THEN [provider |-> "direct", route |-> "direct"]
    ELSE [provider |-> routeKey, route |-> routeKey]

(***************************************************************************)
(* Strings as character sequences                                          *)
(***************************************************************************)
UpperCase == << "A","B","C","D","E","F","G","H","I","J","K","L","M",
                "N","O","P","Q","R","S","T","U","V","W","X","Y","Z" >>
LowerCase == << "a","b","c","d","e","f","g","h","i","j","k","l","m",
                "n","o","p","q","r","s","t","u","v","w","x","y","z" >>

lowerChar(c) ==
    IF \E i \in 1..Len(UpperCase) : UpperCase[i] = c
    THEN LowerCase[CHOOSE i \in 1..Len(UpperCase) : UpperCase[i] = c]
    ELSE c

\* String.prototype.toLowerCase
toLowerCase(s) == [i \in 1..Len(s) |-> lowerChar(s[i])]

\* String.prototype.includes
includes(hay, needle) ==
    \E i \in 0..(Len(hay) - Len(needle)) :
        SubSeq(hay, i + 1, i + Len(needle)) = needle

S_whisper == <<"w","h","i","s","p","e","r">>
S_tts     == <<"t","t","s">>
S_playai  == <<"p","l","a","y","a","i">>
S_img     == <<"i","m","g">>
S_vision  == <<"v","i","s","i","o","n">>
S_image   == <<"i","m","a","g","e">>
S_video   == <<"v","i","d","e","o">>
S_sora    == <<"s","o","r","a">>

(***************************************************************************)
(* services/models: capabilities, ratings, cost tier                       *)
(***************************************************************************)
\* capabilityTemplate(flags): flags is the set of keys whose value is truthy
capabilityTemplate(flags) == [k \in CapabilityKeySet |-> k \in flags]

\* ratingFromCapabilities: 1 if supported, 0 if not
ratingFromCapabilities(capabilities) ==
    [k \in DOMAIN capabilities |-> IF capabilities[k] THEN 1 ELSE 0]

\* inferCapabilities with the case folding left out
inferCapabilitiesCaseSensitive(modelId) ==
    LET lowered == modelId IN
    IF includes(lowered, S_whisper) THEN capabilityTemplate({"audio_speech", "speed"})
    ELSE IF includes(lowered, S_tts) \/ includes(lowered, S_playai)
         THEN capabilityTemplate({"audio_speech", "speed"})
    ELSE IF includes(lowered, S_img) \/ includes(lowered, S_vision) \/ includes(lowered, S_image)
         THEN capabilityTemplate({"vision", "images"})
    ELSE IF includes(lowered, S_video) \/ includes(lowered, S_sora)
         THEN capabilityTemplate({"video"})
    ELSE capabilityTemplate({"chat", "reasoning", "speed", "coding"})

\* inferCapabilities(modelId), modelId given by its characters
inferCapabilities(modelId) ==
    LET lowered == toLowerCase(modelId) IN
    IF includes(lowered, S_whisper) THEN capabilityTemplate({"audio_speech", "speed"})
    ELSE IF includes(lowered, S_tts) \/ includes(lowered, S_playai)
         THEN capabilityTemplate({"audio_speech", "speed"})
    ELSE IF includes(lowered, S_img) \/ includes(lowered, S_vision) \/ includes(lowered, S_image)
         THEN capabilityTemplate({"vision", "images"})
    ELSE IF includes(lowered, S_video) \/ includes(lowered, S_sora)
         THEN capabilityTemplate({"video"})
    ELSE capabilityTemplate({"chat", "reasoning", "speed", "coding"})

\* The characters of the strings whose inside the code reads
Chars(str) ==
    \* model ids
    CASE str = "gpt-4" -> <<"g","p","t","-","4">>
      [] str = "llama-3" -> <<"l","l","a","m","a","-","3">>
      [] str = "whisper-1" -> <<"w","h","i","s","p","e","r","-","1">>
    \* values of the numeric rate-limit headers
      [] str = "0" -> <<"0">>
      [] str = "5" -> <<"5">>
      [] str = "1" -> <<"1">>
      [] str = "4" -> <<"4">>
      [] str = "6" -> <<"6">>
      [] str = "-1" -> <<"-","1">>
      [] str = "abc" -> <<"a","b","c">>
      [] str = "12" -> <<"1","2">>
      [] str = "60" -> <<"6","0">>
      [] str = "-1" -> <<"-","1">>
      [] str = "abc" -> <<"a","b","c">>
    \* provider and company names
      [] str = "groq" -> <<"g","r","o","q">>
      [] str = "openrouter" -> <<"o","p","e","n","r","o","u","t","e","r">>
      [] str = "openai" -> <<"o","p","e","n","a","i">>
      [] str = "anthropic" -> <<"a","n","t","h","r","o","p","i","c">>
      [] str = "puter" -> <<"p","u","t","e","r">>
      [] str = "direct" -> <<"d","i","r","e","c","t">>
      [] str = "togetherai" -> <<"t","o","g","e","t","h","e","r","a","i">>
      [] str = "cloudflare" -> <<"c","l","o","u","d","f","l","a","r","e">>
      [] str = "meta" -> <<"m","e","t","a">>
    \* credential keys
      [] str = "GROQ_API_KEY" -> <<"G","R","O","Q","_","A","P","I","_","K","E","Y">>
      [] str = "OPENROUTER_API_KEY" -> <<"O","P","E","N","R","O","U","T","E","R","_","A","P","I","_","K","E","Y">>
      [] str = "OPENAI_API_KEY" -> <<"O","P","E","N","A","I","_","A","P","I","_","K","E","Y">>
      [] str = "ANTHROPIC_API_KEY" -> <<"A","N","T","H","R","O","P","I","C","_","A","P","I","_","K","E","Y">>
      [] str = "CLOUDFLARE_API_KEY" -> <<"C","L","O","U","D","F","L","A","R","E","_","A","P","I","_","K","E","Y">>
      [] str = "CLOUDFLARE_ACCOUNT_ID" -> <<"C","L","O","U","D","F","L","A","R","E","_","A","C","C","O","U","N","T","_","I","D">>
    \* HTTP statuses and error bodies
      [] str = "429" -> <<"4","2","9">>
      [] str = "500" -> <<"5","0","0">>
      [] str = "400" -> <<"4","0","0">>
      [] str = "Too Many Requests" -> <<"T","o","o"," ","M","a","n","y"," ","R","e","q","u","e","s","t","s">>
      [] str = "Internal error" -> <<"I","n","t","e","r","n","a","l"," ","e","r","r","o","r">>
      [] str = "Failed to generate" -> <<"F","a","i","l","e","d"," ","t","o"," ","g","e","n","e","r","a","t","e">>
    \* the fixed parts of error messages
      [] str = " API error: " -> <<" ","A","P","I"," ","e","r","r","o","r",":"," ">>
      [] str = " - " -> <<" ","-"," ">>
      [] str = " not configured" -> <<" ","n","o","t"," ","c","o","n","f","i","g","u","r","e","d">>
      [] str = "Provider route " -> <<"P","r","o","v","i","d","e","r"," ","r","o","u","t","e"," ">>
      [] str = " not implemented" -> <<" ","n","o","t"," ","i","m","p","l","e","m","e","n","t","e","d">>
      [] str = "Direct API for provider " -> <<"D","i","r","e","c","t"," ","A","P","I"," ","f","o","r"," ","p","r","o","v","i","d","e","r"," ">>
      [] str = " not yet implemented" -> <<" ","n","o","t"," ","y","e","t"," ","i","m","p","l","e","m","e","n","t","e","d">>
      [] str = "Company must be specified for direct API calls" -> <<"C","o","m","p","a","n","y"," ","m","u","s","t"," ","b","e"," ","s","p","e","c","i","f","i","e","d"," ","f","o","r"," ","d","i","r","e","c","t"," ","A","P","I"," ","c","a","l","l","s">>
      [] str = "Puter SDK not available - this endpoint only works inside Puter environment" -> <<"P","u","t","e","r"," ","S","D","K"," ","n","o","t"," ","a","v","a","i","l","a","b","l","e"," ","-"," ","t","h","i","s"," ","e","n","d","p","o","i","n","t"," ","o","n","l","y"," ","w","o","r","k","s"," ","i","n","s","i","d","e"," ","P","u","t","e","r"," ","e","n","v","i","r","o","n","m","e","n","t">>
      [] str = "Cannot read properties of null (reading 'choices')" -> <<"C","a","n","n","o","t"," ","r","e","a","d"," ","p","r","o","p","e","r","t","i","e","s"," ","o","f"," ","n","u","l","l"," ","(","r","e","a","d","i","n","g"," ","'","c","h","o","i","c","e","s","'",")">>
      [] str = "Failed to fetch" -> <<"F","a","i","l","e","d"," ","t","o"," ","f","e","t","c","h">>
      [] str = "\"" -> <<"\"">>
    \* the words isRateLimitError looks for
      [] str = "rate" -> <<"r","a","t","e">>
      [] str = "too many requests" -> <<"t","o","o"," ","m","a","n","y"," ","r","e","q","u","e","s","t","s">>
      [] str = "quota" -> <<"q","u","o","t","a">>

\* details[modelId] || {} : an absent overlay entry reads as an entry with no field
NoDetail ==
    [ capabilities |-> [present |-> FALSE, flags |-> {}],
      provider |-> "", route |-> "",
      ratings |-> [present |-> FALSE, values |-> <<>>],
      cost_tier |-> "", uses_puter_credits |-> FALSE ]

detailOf(details, modelId) ==
    IF modelId \in DOMAIN details THEN details[modelId] ELSE NoDetail

\* normalizeCostTier(modelId, db)
normalizeCostTier(modelId, d) ==
    IF modelId \in Range(d.free_models) THEN "remote_free"
    ELSE IF detailOf(d.model_details, modelId).cost_tier # ""
         THEN detailOf(d.model_details, modelId).cost_tier
         ELSE "paid"

\* the object pushed by buildModelList for one (company, bucket, modelId)
descriptor(companyKey, bucket, modelId, d) ==
    LET base == detailOf(d.model_details, modelId)
        pr   == parseRouteKey(bucket)
        capabilities ==
            IF base.capabilities.present
            THEN capabilityTemplate(base.capabilities.flags)
            ELSE inferCapabilities(Chars(modelId))
    IN [ id |-> modelId,
         provider |-> IF base.provider # "" THEN base.provider ELSE pr.provider,
         company |-> companyKey,
         route |-> IF base.route # "" THEN base.route ELSE pr.route,
         capabilities |-> capabilities,
         ratings |-> IF base.ratings.present THEN base.ratings.values
                     ELSE ratingFromCapabilities(capabilities),
         limits |-> <<>>,
         cost_tier |-> IF base.cost_tier # "" THEN base.cost_tier
                       ELSE normalizeCostTier(modelId, d),
         uses_puter_credits |-> base.uses_puter_credits,
         cost_notes |-> "",
         notes |-> "" ]

\* company[bucket]: the value stored under a bucket name, undefined when absent
bucketValue(company, bucket) ==
    IF bucket \in DOMAIN company THEN company[bucket] ELSE [kind |-> "undefined", ids |-> <<>>]

\* inner loops of buildModelList: one bucket of one company
bucketModels(companyKey, company, bucket, d) ==
    LET modelIds == bucketValue(company, bucket) IN
    IF modelIds.kind # "array" THEN <<>>
    ELSE [i \in 1..Len(modelIds.ids) |-> descriptor(companyKey, bucket, modelIds.ids[i], d)]

\* for (const bucket of PROVIDER_BUCKETS), buckets n..13
RECURSIVE companyModels(_, _, _, _)
companyModels(companyKey, company, n, d) ==
    IF n > Len(PROVIDER_BUCKETS) THEN <<>>
    ELSE bucketModels(companyKey, company, PROVIDER_BUCKETS[n], d)
         \o companyModels(companyKey, company, n + 1, d)

\* for (const [companyKey, company] of Object.entries(db.model_registry)), entries n..
RECURSIVE registryModels(_, _)
registryModels(n, d) ==
    IF n > Len(d.model_registry) THEN <<>>
    ELSE companyModels(d.model_registry[n].key, d.model_registry[n].buckets, 1, d)
         \o registryModels(n + 1, d)

\* buildModelList(db)
buildModelList(d) == registryModels(1, d)

(***************************************************************************)
(* services/models: the selector                                           *)
(***************************************************************************)
\* A query field that is absent (or empty, which the code's truthiness tests
\* treat alike) is "".
filterModels(ms, query) ==
    LET keep(model) ==
            /\ ~(query.provider # "" /\ model.provider # query.provider)
            /\ ~(query.cost_tier # "" /\ model.cost_tier # query.cost_tier)
            /\ ~(query.capability # "" /\
                 ~(query.capability \in DOMAIN model.capabilities
                   /\ model.capabilities[query.capability]))
    IN SelectSeq(ms, keep)

\* (model.ratings && model.ratings[key]) || 0
ratingOr0(ratings, key) == IF key \in DOMAIN ratings THEN ratings[key] ELSE 0

\* { ...model, score: rating }
withScore(model, rating) ==
    [f \in (DOMAIN model) \cup {"score"} |-> IF f = "score" THEN rating ELSE model[f]]

\* a comparator that ranks by score before cost tier
compareSuggestionsScoreFirst(a, b) ==
    LET aIdx == indexOf(COST_TIER_ORDER, a.cost_tier)
        bIdx == indexOf(COST_TIER_ORDER, b.cost_tier)
    IN IF b.score # a.score THEN b.score - a.score
       ELSE IF aIdx # bIdx THEN aIdx - bIdx
       ELSE ratingOr0(b.ratings, "speed") - ratingOr0(a.ratings, "speed")

\* the comparator handed to sort in suggestModels
compareSuggestions(a, b) ==
    LET aIdx == indexOf(COST_TIER_ORDER, a.cost_tier)
        bIdx == indexOf(COST_TIER_ORDER, b.cost_tier)
    IN IF aIdx # bIdx THEN aIdx - bIdx
       ELSE IF b.score # a.score THEN b.score - a.score
       ELSE ratingOr0(b.ratings, "speed") - ratingOr0(a.ratings, "speed")

\* Array.prototype.sort is stable: x goes before the first element it strictly precedes
insertSorted(sorted, x) ==
    LET before == { i \in 1..Len(sorted) : compareSuggestions(x, sorted[i]) < 0 }
        pos    == IF before = {} THEN Len(sorted) + 1
                  ELSE CHOOSE i \in before : \A j \in before : i <= j
    IN SubSeq(sorted, 1, pos - 1) \o <<x>> \o SubSeq(sorted, pos, Len(sorted))

RECURSIVE sortSuggestions(_)
sortSuggestions(ms) ==
    IF ms = <<>> THEN <<>>
    ELSE insertSorted(sortSuggestions(SubSeq(ms, 1, Len(ms) - 1)), ms[Len(ms)])

\* suggestModels(models, constraints)
suggestModels(ms, constraints) ==
    LET filtered      == filterModels(ms, constraints)
        capabilityKey == IF constraints.capability # "" THEN constraints.capability ELSE "chat"
        maxCostIndex  == IF constraints.max_cost_tier # ""
                         THEN indexOf(COST_TIER_ORDER, constraints.max_cost_tier)
                         ELSE Len(COST_TIER_ORDER) - 1
        inCeiling(m)  == LET idx == indexOf(COST_TIER_ORDER, m.cost_tier)
                         IN idx # -1 /\ idx <= maxCostIndex
        kept          == SelectSeq(filtered, inCeiling)
        scored        == [i \in 1..Len(kept) |->
                             withScore(kept[i], ratingOr0(kept[i].ratings, capabilityKey))]
    IN sortSuggestions(scored)

Null == [found |-> FALSE]
Some(m) == [found |-> TRUE, model |-> m]

\* Array.prototype.find(...) || null
findById(ms, id) ==
    IF \E i \in 1..Len(ms) : ms[i].id = id
    THEN Some(ms[CHOOSE i \in 1..Len(ms) : ms[i].id = id /\ \A j \in 1..(i-1) : ms[j].id # id])
    ELSE Null

\* a pickModel that applies the selection constraints to an explicit id as well
pickModelFiltered(ms, input) ==
    LET suggested == suggestModels(ms, [provider |-> "", cost_tier |-> "",
                                        capability |-> input.capability,
                                        max_cost_tier |-> input.max_cost_tier])
    IN IF input.model_id # ""
       THEN findById(suggested, input.model_id)
       ELSE IF Len(suggested) > 0 THEN Some(suggested[1]) ELSE Null

\* pickModel(models, input)
pickModel(ms, input) ==
    IF input.model_id # ""
    THEN findById(ms, input.model_id)
    ELSE LET suggested == suggestModels(ms, [provider |-> "", cost_tier |-> "",
                                             capability |-> input.capability,
                                             max_cost_tier |-> input.max_cost_tier])
         IN IF Len(suggested) > 0 THEN Some(suggested[1]) ELSE Null

(***************************************************************************)
(* Capability inference on its own (SpecInfer)                             *)
(***************************************************************************)
Fragments ==
    { S_whisper, S_tts, S_playai, S_img, S_vision, S_image, S_video, S_sora,
      <<"W","h","i","s","P","E","R">>, <<"T","T","S">>, <<"V","i","d","e","o">>,
      <<"w","h","i","s">>, <<"p","e","r">>, <<"g","p","t">>, <<"-">> }

RECURSIVE FragmentIds(_)
FragmentIds(n) ==
    IF n = 0 THEN { <<>> }
    ELSE LET shorter == FragmentIds(n - 1) IN
         shorter \cup { s \o f : s \in shorter, f \in Fragments }

NoDb == [model_registry |-> <<>>, model_details |-> <<>>, free_models |-> <<>>]
NoReq == [kind |-> "none"]
NoCaps == capabilityTemplate({})

\* the parts of the state a specification does not exercise stay as constructed
SelIdle ==
    /\ db = NoDb /\ models = <<>> /\ req = NoReq /\ suggestions = <<>> /\ picked = Null

InferIdle == inferId = <<>> /\ inferCaps = NoCaps

ExtractIdle == response = [t |-> "undefined"] /\ extracted = [threw |-> FALSE, value |-> ""]

RateIdle ==
    /\ cache = <<>> /\ now = 0 /\ calls = 0
    /\ lastOp = [op |-> "none"] /\ cacheBefore = <<>>
    /\ waitTime = [t |-> "undefined"]

NoResult == [kind |-> "none"]
NoSdk == [sdk |-> "absent"]

AccountIdle ==
    /\ puter = NoSdk /\ usability = NoResult /\ tierStatus = NoResult
    /\ accountStatus = NoResult

HealthIdle == history = <<>> /\ recorded = <<>> /\ providerStatus = NoResult

DispatchIdle == environment = {} /\ upstream = {} /\ outcome = NoResult

RunIdle == runReq = NoResult /\ runRes = NoResult

StoreIdle ==
    /\ overrides = <<>> /\ overridesFile = <<>> /\ ratingRes = NoResult
    /\ dbCache = NoResult /\ dbFile = NoResult /\ loaded = NoResult
    /\ inflight = {}

ServicesIdle == AccountIdle /\ HealthIdle /\ DispatchIdle /\ RunIdle /\ StoreIdle

InitInfer ==
    /\ phase = "start"
    /\ inferId \in FragmentIds(MaxFragments)
    /\ inferCaps = NoCaps
    /\ SelIdle /\ ExtractIdle /\ RateIdle /\ ServicesIdle

InferCapabilities ==
    /\ phase = "start"
    /\ inferCaps' = inferCapabilities(inferId)
    /\ phase' = "inferred"
    /\ UNCHANGED <<inferId, selVars, extractVars, rateVars, serviceVars>>

NextInfer == InferCapabilities

SpecInfer == InitInfer /\ [][NextInfer]_vars

(***************************************************************************)
(* Databases the catalog is built from                                     *)
(***************************************************************************)
CompanyKeys == <<"openai", "meta", "mistralai", "google">>

\* "newprov" is a bucket name the lookup table does not know
RegistryBucketNames == {"direct_api", "groq", "newprov"}

Absent    == [kind |-> "undefined", ids |-> <<>>]
NotAList  == [kind |-> "string", ids |-> <<>>]
List(ids) == [kind |-> "array", ids |-> ids]

BucketChoices(b) ==
    CASE b = "direct_api" -> {Absent, List(<<"gpt-4">>)}
      [] b = "groq"       -> {Absent, NotAList, List(<<"gpt-4", "whisper-1">>)}
      [] b = "newprov"    -> {Absent, List(<<"llama-3">>)}

CompanyShapes ==
    { f \in [RegistryBucketNames -> UNION { BucketChoices(b) : b \in RegistryBucketNames }] :
        \A b \in RegistryBucketNames : f[b] \in BucketChoices(b) }

RECURSIVE Registries(_)
Registries(n) ==
    IF n = 0 THEN { <<>> }
    ELSE LET shorter == Registries(n - 1) IN
         shorter \cup { Append(r, [key |-> CompanyKeys[Len(r) + 1], buckets |-> c]) :
                            r \in { x \in shorter : Len(x) = n - 1 }, c \in CompanyShapes }

Detail(flagsPresent, flags, provider, route, ratingsPresent, ratings, tier, credits) ==
    [ capabilities |-> [present |-> flagsPresent, flags |-> flags],
      provider |-> provider, route |-> route,
      ratings |-> [present |-> ratingsPresent, values |-> ratings],
      cost_tier |-> tier, uses_puter_credits |-> credits ]

TierOnly(tier) == Detail(FALSE, {}, "", "", FALSE, <<>>, tier, FALSE)

CatalogDetails ==
    { <<>>,
      "gpt-4" :> TierOnly("free"),
      "gpt-4" :> Detail(TRUE, {"chat", "vision"}, "azure", "direct", FALSE, <<>>, "local", TRUE),
      "llama-3" :> TierOnly("credit_backed") }

CatalogDbs ==
    { [model_registry |-> r, model_details |-> d, free_models |-> f] :
        r \in Registries(MaxCompanies) \ { <<>> },
        d \in CatalogDetails,
        f \in { <<>>, <<"gpt-4">> } }

SelectRegistries ==
    { << [key |-> "openai",
          buckets |-> [b \in {"groq"} |-> List(<<"gpt-4", "llama-3", "whisper-1">>)]] >>,
      << [key |-> "meta",
          buckets |-> [b \in {"groq", "direct_api"} |->
                          IF b = "groq" THEN List(<<"llama-3", "gpt-4">>)
                          ELSE List(<<"gpt-4">>)]] >> }

RatingChoices ==
    { [present |-> FALSE, values |-> <<>>],
      [present |-> TRUE, values |-> [k \in {"chat", "speed"} |-> IF k = "chat" THEN 1 ELSE 3]],
      [present |-> TRUE, values |-> [k \in {"chat"} |-> 5]] }

DetailChoices ==
    { Detail(FALSE, {}, "", "", r.present, r.values, t, FALSE) :
        r \in RatingChoices, t \in {"", "local", "credit_backed", "free"} }

SelectDbs ==
    { [model_registry |-> r, model_details |-> d, free_models |-> f] :
        r \in SelectRegistries,
        d \in [{"gpt-4", "llama-3"} -> DetailChoices],
        f \in { <<>>, <<"llama-3">> } }

SuggestRequests ==
    { [kind |-> "suggest", provider |-> p, cost_tier |-> t, capability |-> c,
       max_cost_tier |-> mx, model_id |-> ""] :
        p \in {"", "groq"}, t \in {"", "paid"}, c \in {"", "chat", "audio_speech"},
        mx \in {"", "remote_free", "credit_backed", "bogus"} }

PickRequests ==
    { [kind |-> "pick", provider |-> "", cost_tier |-> "", capability |-> c,
       max_cost_tier |-> mx, model_id |-> id] :
        c \in {"", "chat"}, mx \in {"", "local"},
        id \in {"", "gpt-4", "whisper-1", "no-such-model"} }

(***************************************************************************)
(* Catalog construction and selection as steps of a request                *)
(***************************************************************************)
InitCatalog ==
    /\ phase = "start"
    /\ db \in CatalogDbs
    /\ models = <<>>
    /\ req = NoReq
    /\ suggestions = <<>>
    /\ picked = Null
    /\ InferIdle /\ ExtractIdle /\ RateIdle /\ ServicesIdle

InitSelect ==
    /\ phase = "start"
    /\ db \in SelectDbs
    /\ models = <<>>
    /\ req = NoReq
    /\ suggestions = <<>>
    /\ picked = Null
    /\ InferIdle /\ ExtractIdle /\ RateIdle /\ ServicesIdle

\* const db = loadDb(); const models = buildModelList(db)
BuildModelList ==
    /\ phase \in {"start", "rated"}
    /\ models' = buildModelList(db)
    /\ phase' = "built"
    /\ UNCHANGED <<db, req, suggestions, picked, inferVars, extractVars, rateVars, serviceVars>>

SuggestModels ==
    /\ phase = "built"
    /\ \E c \in SuggestRequests :
        /\ req' = c
        /\ suggestions' = suggestModels(models, c)
    /\ phase' = "suggested"
    /\ UNCHANGED <<db, models, picked, inferVars, extractVars, rateVars, serviceVars>>

PickModel ==
    /\ phase = "built"
    /\ \E input \in PickRequests :
        /\ req' = input
        /\ picked' = pickModel(models, input)
    /\ phase' = "picked"
    /\ UNCHANGED <<db, models, suggestions, inferVars, extractVars, rateVars, serviceVars>>

NextCatalog == BuildModelList

SpecCatalog == InitCatalog /\ [][NextCatalog]_vars

NextSelect == BuildModelList \/ SuggestModels \/ PickModel

SpecSelect == InitSelect /\ [][NextSelect]_vars

(***************************************************************************)
(* JavaScript values of a parsed provider response                         *)
(***************************************************************************)
Undef      == [t |-> "undefined"]
NullV      == [t |-> "null"]
Str(x)     == [t |-> "string", s |-> x]
Num(x)     == [t |-> "number", n |-> x]
Arr(items) == [t |-> "array", items |-> items]
Obj(props) == [t |-> "object", props |-> props]   \* properties in insertion order
Prop(k, v) == [k |-> k, v |-> v]

\* reading a property of undefined or null raises a TypeError
isNullish(v) == v.t \in {"undefined", "null"}

\* v[name] for a v that is not nullish
getProp(v, name) ==
    IF v.t = "object" /\ \E i \in 1..Len(v.props) : v.props[i].k = name
    THEN v.props[CHOOSE i \in 1..Len(v.props) : v.props[i].k = name].v
    ELSE Undef

truthy(v) ==
    CASE v.t \in {"undefined", "null"} -> FALSE
      [] v.t = "string" -> v.s # ""
      [] v.t = "number" -> v.n # 0
      [] OTHER -> TRUE

isArray(v) == v.t = "array"

\* typeof v === 'object'
typeofObject(v) == v.t \in {"object", "array", "null"}

\* String(v)
RECURSIVE String(_)
RECURSIVE joinItems(_, _)
joinItems(items, i) ==
    IF i > Len(items) THEN ""
    ELSE (IF i > 1 THEN "," ELSE "")
         \o (IF isNullish(items[i]) THEN "" ELSE String(items[i]))
         \o joinItems(items, i + 1)

String(v) ==
    CASE v.t = "string"    -> v.s
      [] v.t = "number"    -> ToString(v.n)
      [] v.t = "undefined" -> "undefined"
      [] v.t = "null"      -> "null"
      [] v.t = "array"     -> joinItems(v.items, 1)
      [] v.t = "object"    -> "[object Object]"

\* JSON.stringify(v) for a JSON value (the modelled strings need no escaping)
RECURSIVE stringify(_)
RECURSIVE stringifyItems(_, _)
RECURSIVE stringifyProps(_, _, _)
stringifyItems(items, i) ==
    IF i > Len(items) THEN ""
    ELSE (IF i > 1 THEN "," ELSE "")
         \o (IF items[i].t = "undefined" THEN "null" ELSE stringify(items[i]))
         \o stringifyItems(items, i + 1)

stringifyProps(props, i, first) ==
    IF i > Len(props) THEN ""
    ELSE IF props[i].v.t = "undefined" THEN stringifyProps(props, i + 1, first)
    ELSE (IF first THEN "" ELSE ",")
         \o "\"" \o props[i].k \o "\":" \o stringify(props[i].v)
         \o stringifyProps(props, i + 1, FALSE)

stringify(v) ==
    CASE v.t = "string" -> "\"" \o v.s \o "\""
      [] v.t = "number" -> ToString(v.n)
      [] v.t = "null"   -> "null"
      [] v.t = "array"  -> "[" \o stringifyItems(v.items, 1) \o "]"
      [] v.t = "object" -> "{" \o stringifyProps(v.props, 1, TRUE) \o "}"

(***************************************************************************)
(* providers/router: extractContent                                        *)
(***************************************************************************)
Thrown == [threw |-> TRUE, value |-> "TypeError"]
Ret(x) == [threw |-> FALSE, value |-> x]

\* String(x || '')
StringOrEmpty(x) == IF truthy(x) THEN String(x) ELSE ""

nonEmptyArray(v) == truthy(v) /\ isArray(v) /\ Len(v.items) > 0

\* Fallback - JSON.stringify(response)
fromFallback(res) == Ret(stringify(res))

\* HuggingFace format, then the fallback
fromHuggingFace(res) ==
    IF truthy(getProp(res, "generated_text"))
    THEN Ret(String(getProp(res, "generated_text")))
    ELSE fromFallback(res)

\* Cloudflare format, then the later formats
fromCloudflare(res) ==
    IF truthy(getProp(res, "result")) /\ typeofObject(getProp(res, "result"))
    THEN Ret(StringOrEmpty(getProp(getProp(res, "result"), "response")))
    ELSE fromHuggingFace(res)

\* Cohere format, then the later formats
fromCohere(res) ==
    LET message == getProp(res, "message") IN
    IF truthy(message) /\ typeofObject(message) /\ nonEmptyArray(getProp(message, "content"))
    THEN LET content == getProp(message, "content").items[1] IN
         IF isNullish(content) THEN Thrown
         ELSE Ret(StringOrEmpty(getProp(content, "text")))
    ELSE fromCloudflare(res)

\* Gemini format, then the later formats
fromGemini(res) ==
    IF nonEmptyArray(getProp(res, "candidates"))
    THEN LET candidate == getProp(res, "candidates").items[1] IN
         IF isNullish(candidate) THEN Thrown
         ELSE LET content == getProp(candidate, "content") IN
              IF truthy(content) /\ typeofObject(content) /\ nonEmptyArray(getProp(content, "parts"))
              THEN LET part == getProp(content, "parts").items[1] IN
                   IF isNullish(part) THEN Thrown
                   ELSE Ret(StringOrEmpty(getProp(part, "text")))
              ELSE fromCohere(res)
    ELSE fromCohere(res)

\* Anthropic format, then the later formats
fromAnthropic(res) ==
    IF nonEmptyArray(getProp(res, "content"))
    THEN LET content == getProp(res, "content").items[1] IN
         IF isNullish(content) THEN Thrown
         ELSE Ret(StringOrEmpty(getProp(content, "text")))
    ELSE fromGemini(res)

\* extractContent(response)
extractContent(res) ==
    IF isNullish(res) THEN Thrown
    ELSE IF nonEmptyArray(getProp(res, "choices"))
    THEN LET choice == getProp(res, "choices").items[1] IN
         IF isNullish(choice) THEN Thrown
         ELSE LET message == getProp(choice, "message") IN
              IF truthy(message) /\ typeofObject(message)
              THEN Ret(StringOrEmpty(getProp(message, "content")))
              ELSE fromAnthropic(res)
    ELSE fromAnthropic(res)

(***************************************************************************)
(* Provider responses (SpecExtract)                                        *)
(***************************************************************************)
One(k, v) == Obj(<<Prop(k, v)>>)

\* what a provider may put where a text is expected
Texts == { Str("hi"), Str(""), NullV, Num(7), Undef }

OpenAIShape(x)     == One("choices", Arr(<<One("message", One("content", x))>>))
AnthropicShape(x)  == One("content", Arr(<<Obj(<<Prop("type", Str("text")), Prop("text", x)>>)>>))
GeminiShape(x)     == One("candidates", Arr(<<One("content", One("parts", Arr(<<One("text", x)>>)))>>))
CohereShape(x)     == One("message", One("content", Arr(<<One("text", x)>>)))
CloudflareShape(x) == One("result", One("response", x))
HuggingFaceShape(x) == One("generated_text", x)

\* a recognised container whose first element is not what the format expects
BrokenFirst ==
    { One("choices", Arr(<<NullV>>)),
      One("choices", Arr(<<>>)),
      One("choices", Arr(<<Obj(<<>>)>>)),
      One("choices", Arr(<<One("message", Str("text"))>>)),
      One("choices", Arr(<<One("text", Str("legacy"))>>)),
      One("content", Arr(<<NullV>>)),
      One("content", Arr(<<One("type", Str("tool_use"))>>)),
      One("content", Str("plain")),
      One("candidates", Arr(<<NullV>>)),
      One("candidates", Arr(<<One("finishReason", Str("SAFETY"))>>)),
      One("candidates", Arr(<<One("content", One("parts", Arr(<<NullV>>)))>>)),
      One("candidates", Arr(<<One("content", One("parts", Arr(<<>>)))>>)),
      One("message", One("content", Arr(<<NullV>>))),
      One("message", One("content", Str("plain"))),
      One("message", NullV),
      One("result", NullV),
      One("result", Str("plain")),
      One("result", Arr(<<Str("a"), Str("b")>>)) }

\* values that are none of the six formats
Unrecognised ==
    { NullV, Obj(<<>>), One("unknown", Str("shape")), Arr(<<>>),
      Arr(<<One("generated_text", Str("hi"))>>), Str("plain"), Num(42),
      One("error", One("message", Str("overloaded"))) }

\* objects that carry two formats at once
TwoShapes ==
    { Obj(a.props \o b.props) :
        a \in { OpenAIShape(Str("a")), AnthropicShape(Str("a")), GeminiShape(Str("a")) },
        b \in { CloudflareShape(Str("b")), HuggingFaceShape(Str("b")),
                One("choices", Arr(<<NullV>>)) } }

Responses ==
    { OpenAIShape(x) : x \in Texts } \cup { AnthropicShape(x) : x \in Texts }
    \cup { GeminiShape(x) : x \in Texts } \cup { CohereShape(x) : x \in Texts }
    \cup { CloudflareShape(x) : x \in Texts } \cup { HuggingFaceShape(x) : x \in Texts }
    \cup BrokenFirst \cup Unrecognised \cup TwoShapes

InitExtract ==
    /\ phase = "start"
    /\ response \in Responses
    /\ extracted = [threw |-> FALSE, value |-> ""]
    /\ SelIdle /\ InferIdle /\ RateIdle /\ ServicesIdle

\* const output = extractContent(providerResponse)
ExtractContent ==
    /\ phase = "start"
    /\ extracted' = extractContent(response)
    /\ phase' = "extracted"
    /\ UNCHANGED <<response, selVars, inferVars, rateVars, serviceVars>>

NextExtract == ExtractContent

SpecExtract == InitExtract /\ [][NextExtract]_vars

(***************************************************************************)
(* utils/headers: parseRateLimitHeaders                                    *)
(***************************************************************************)
NaN == [t |-> "NaN"]

Digits == <<"0","1","2","3","4","5","6","7","8","9">>
isDigit(c) == \E i \in 1..Len(Digits) : Digits[i] = c
digitValue(c) == (CHOOSE i \in 1..Len(Digits) : Digits[i] = c) - 1

\* the value of the longest prefix of decimal digits of cs, from acc; NaN when
\* there is no digit at all
RECURSIVE parseDigits(_, _, _)
parseDigits(cs, acc, seen) ==
    IF cs # <<>> /\ isDigit(Head(cs))
    THEN parseDigits(Tail(cs), 10 * acc + digitValue(Head(cs)), TRUE)
    ELSE IF seen THEN Num(acc) ELSE NaN

\* parseInt(value, 10), value given by its characters
RECURSIVE parseIntChars(_)
parseIntChars(cs) ==
    IF cs # <<>> /\ Head(cs) = " " THEN parseIntChars(Tail(cs))
    ELSE IF cs # <<>> /\ Head(cs) = "-"
         THEN LET r == parseDigits(Tail(cs), 0, FALSE) IN
              IF r.t = "NaN" THEN NaN ELSE Num(0 - r.n)
    ELSE IF cs # <<>> /\ Head(cs) = "+" THEN parseDigits(Tail(cs), 0, FALSE)
    ELSE parseDigits(cs, 0, FALSE)

parseInt(value) == parseIntChars(Chars(value))

RATE_LIMIT_HEADER_MAP ==
    << [header |-> "x-ratelimit-remaining-requests", field |-> "requests_remaining"],
       [header |-> "x-ratelimit-limit-requests",     field |-> "requests_limit"],
       [header |-> "x-ratelimit-remaining-tokens",   field |-> "tokens_remaining"],
       [header |-> "x-ratelimit-limit-tokens",       field |-> "tokens_limit"],
       [header |-> "x-ratelimit-reset-requests",     field |-> "reset_time"],
       [header |-> "x-ratelimit-reset",              field |-> "reset_time"] >>

NoLimits ==
    [ requests_remaining |-> NullV, requests_limit |-> NullV,
      tokens_remaining |-> NullV, tokens_limit |-> NullV, reset_time |-> NullV ]

\* one turn of the loop over RATE_LIMIT_HEADER_MAP; headers.get gives null when absent
applyHeader(limits, headers, entry) ==
    IF entry.header \notin DOMAIN headers THEN limits
    ELSE IF entry.field = "reset_time"
         THEN [limits EXCEPT ![entry.field] = Str(headers[entry.header])]
    ELSE LET parsed == parseInt(headers[entry.header]) IN
         IF parsed.t # "NaN" THEN [limits EXCEPT ![entry.field] = parsed] ELSE limits

RECURSIVE parseHeadersFrom(_, _, _)
parseHeadersFrom(limits, headers, n) ==
    IF n > Len(RATE_LIMIT_HEADER_MAP) THEN limits
    ELSE parseHeadersFrom(applyHeader(limits, headers, RATE_LIMIT_HEADER_MAP[n]), headers, n + 1)

\* parseRateLimitHeaders(headers)
parseRateLimitHeaders(headers) == parseHeadersFrom(NoLimits, headers, 1)

(***************************************************************************)
(* services/rateLimit: RateLimitService                                    *)
(***************************************************************************)
\* n in decimal, padded with zeros to width 2 and 3
Pad2(n) == IF n < 10 THEN "0" \o ToString(n) ELSE ToString(n)
Pad3(n) == IF n < 10 THEN "00" \o ToString(n)
           ELSE IF n < 100 THEN "0" \o ToString(n) ELSE ToString(n)

\* Date.prototype.toISOString, for the instants of the first day of the epoch
toISOString(ms) ==
    "1970-01-01T" \o Pad2(ms \div 3600000) \o ":" \o Pad2((ms \div 60000) % 60)
        \o ":" \o Pad2((ms \div 1000) % 60) \o "." \o Pad3(ms % 1000) \o "Z"

\* the instants of the model: half seconds within the first ten seconds, and
\* every fifth minute of the first four hours
Instants == { 500 * k : k \in 0..19 } \cup { 300000 * k : k \in 0..48 }

IsoTable == [ i \in Instants |-> toISOString(i) ]

\* new Date(str).getTime(): NaN unless str is a timestamp
dateGetTime(str) ==
    IF \E i \in Instants : IsoTable[i] = str
    THEN Num(CHOOSE i \in Instants : IsoTable[i] = str)
    ELSE NaN

\* a cache key that leaves the model id out
getCacheKeyProviderOnly(provider, modelId) == provider \o ":"

\* getCacheKey(provider, modelId)
getCacheKey(provider, modelId) == provider \o ":" \o modelId

\* { ...limits, updated_at: new Date().toISOString() }
cachedEntry(limits, t) ==
    [f \in (DOMAIN limits) \cup {"updated_at"} |->
        IF f = "updated_at" THEN Str(toISOString(t)) ELSE limits[f]]

\* this.cache[cacheKey] = entry
cachePut(c, key, entry) ==
    [k \in (DOMAIN c) \cup {key} |-> IF k = key THEN entry ELSE c[k]]

\* an updateFromHeaders that lays the parsed fields over the entry it finds
updateFromHeadersMerging(c, t, provider, modelId, headers) ==
    LET key    == getCacheKey(provider, modelId)
        parsed == parseRateLimitHeaders(headers)
        old    == IF key \in DOMAIN c THEN c[key] ELSE NoLimits
    IN cachePut(c, key,
                cachedEntry([f \in DOMAIN parsed |->
                                IF parsed[f] # NullV THEN parsed[f] ELSE old[f]], t))

\* updateFromHeaders(provider, modelId, headers)
updateFromHeaders(c, t, provider, modelId, headers) ==
    cachePut(c, getCacheKey(provider, modelId), cachedEntry(parseRateLimitHeaders(headers), t))

\* get(provider, modelId): the entry, or null
get(c, provider, modelId) ==
    IF getCacheKey(provider, modelId) \in DOMAIN c
    THEN c[getCacheKey(provider, modelId)] ELSE NullV

\* isRateLimited(provider, modelId)
isRateLimited(c, provider, modelId) ==
    LET cached == get(c, provider, modelId) IN
    IF cached = NullV THEN FALSE
    ELSE IF cached.requests_remaining # NullV /\ cached.requests_remaining.n <= 0 THEN TRUE
    ELSE IF cached.tokens_remaining # NullV /\ cached.tokens_remaining.n <= 0 THEN TRUE
    ELSE FALSE

\* Math.ceil(x / 1000) for an integer x
ceilDiv1000(x) == IF x % 1000 = 0 THEN x \div 1000 ELSE (x \div 1000) + 1

\* getWaitTime(provider, modelId) at time t; NaN propagates through Math.max and Math.ceil
getWaitTime(c, t, provider, modelId) ==
    LET cached == get(c, provider, modelId) IN
    IF cached = NullV \/ ~truthy(cached.reset_time) THEN Num(60)
    ELSE LET resetTime == dateGetTime(cached.reset_time.s) IN
         IF resetTime.t = "NaN" THEN NaN
         ELSE LET waitMs == IF resetTime.n - t > 0 THEN resetTime.n - t ELSE 0
              IN Num(ceilDiv1000(waitMs))

(***************************************************************************)
(* The rate-limit cache over a run of the process (SpecRate)               *)
(***************************************************************************)
\* the (route, model id) pairs provider calls are made for
RateTargets ==
    { <<"groq", "llama-3">>, <<"groq", "llama-3:free">>, <<"openrouter", "llama-3">> }

\* the response headers a provider call may come back with
HeaderSets ==
    { <<>> }
    \cup { "x-ratelimit-remaining-requests" :> v : v \in {"0", "5", "abc"} }
    \cup { "x-ratelimit-remaining-tokens" :> "0",
           "x-ratelimit-reset-requests" :> toISOString(500),
           ("x-ratelimit-remaining-requests" :> "5") @@ ("x-ratelimit-remaining-tokens" :> "-1"),
           ("x-ratelimit-remaining-requests" :> "0") @@ ("x-ratelimit-reset-requests" :> "1s"),
           ("x-ratelimit-remaining-requests" :> "5") @@ ("x-ratelimit-limit-requests" :> "60")
               @@ ("x-ratelimit-remaining-tokens" :> "12") @@ ("x-ratelimit-limit-tokens" :> "60")
               @@ ("x-ratelimit-reset-requests" :> toISOString(500))
               @@ ("x-ratelimit-reset" :> toISOString(1500)) }

InitRate ==
    /\ phase = "start"
    /\ cache = <<>>
    /\ now = 0
    /\ calls = 0
    /\ lastOp = [op |-> "none"]
    /\ cacheBefore = <<>>
    /\ waitTime = Undef
    /\ SelIdle /\ InferIdle /\ ExtractIdle /\ ServicesIdle

\* rateLimitService.updateFromHeaders(route, model.id, result.headers)
UpdateFromHeaders ==
    /\ phase \in {"start", "running"}
    /\ calls < MaxCalls
    /\ \E pm \in RateTargets, h \in HeaderSets :
        /\ cache' = updateFromHeaders(cache, now, pm[1], pm[2], h)
        /\ lastOp' = [op |-> "update", provider |-> pm[1], modelId |-> pm[2], headers |-> h]
    /\ cacheBefore' = cache
    /\ calls' = calls + 1
    /\ phase' = "running"
    /\ UNCHANGED <<now, waitTime, selVars, inferVars, extractVars, serviceVars>>

\* rateLimitService.getWaitTime(provider, modelId): the last step modelled of a run
GetWaitTime ==
    /\ phase \in {"start", "running"}
    /\ \E pm \in RateTargets :
        /\ waitTime' = getWaitTime(cache, now, pm[1], pm[2])
        /\ lastOp' = [op |-> "wait", provider |-> pm[1], modelId |-> pm[2]]
    /\ cacheBefore' = cache
    /\ phase' = "waited"
    /\ UNCHANGED <<cache, now, calls, selVars, inferVars, extractVars, serviceVars>>

\* time passes between operations
Tick ==
    /\ phase \in {"start", "running"}
    /\ now < 1000 * MaxTicks
    /\ now' = now + 1000
    /\ UNCHANGED <<phase, cache, calls, lastOp, cacheBefore, waitTime,
                   selVars, inferVars, extractVars, serviceVars>>

NextRate == UpdateFromHeaders \/ GetWaitTime \/ Tick

SpecRate == InitRate /\ [][NextRate]_vars

(***************************************************************************)
(* utils/errors: the typed errors.  A message is the sequence of its       *)
(* characters, since isRateLimitError looks inside it.                     *)
(***************************************************************************)
RECURSIVE Text(_)
\* the characters of the concatenation of the listed strings
Text(parts) == IF parts = <<>> THEN <<>> ELSE Chars(Head(parts)) \o Text(Tail(parts))

\* new RateLimitError(provider, message, retryAfterSeconds)
RateLimitError(provider, message, retryAfterSeconds) ==
    [ class |-> "RateLimitError", message |-> message, statusCode |-> 429,
      code |-> "RATE_LIMIT_EXCEEDED", provider |-> Str(provider),
      retryAfterSeconds |-> retryAfterSeconds, suggestion |-> Undef,
      modelId |-> Undef ]

\* new ProviderError(provider, message, modelId); modelId is a value, Undef when omitted
ProviderError(provider, message, modelId) ==
    [ class |-> "ProviderError", message |-> message, statusCode |-> 502,
      code |-> "PROVIDER_ERROR", provider |-> Str(provider),
      modelId |-> modelId, originalError |-> Undef ]

\* new ConfigurationError(configKey)
ConfigurationError(configKey) ==
    [ class |-> "ConfigurationError", message |-> Text(<<configKey, " not configured">>),
      statusCode |-> 500, code |-> "CONFIGURATION_ERROR", configKey |-> configKey,
      provider |-> Undef, modelId |-> Undef ]

\* the TypeError a property read of null raises in extractContent
TypeError ==
    [ class |-> "TypeError",
      message |-> Chars("Cannot read properties of null (reading 'choices')"),
      provider |-> Undef, modelId |-> Undef ]

\* the TypeError a fetch that cannot reach the server rejects with
FetchError ==
    [ class |-> "TypeError", message |-> Chars("Failed to fetch"),
      provider |-> Undef, modelId |-> Undef ]

\* the Error a rejected SDK promise carries
SdkError(message) ==
    [ class |-> "Error", message |-> Chars(message), provider |-> Undef, modelId |-> Undef ]

\* isRateLimitError(error), on the error's message
isRateLimitError(message) ==
    LET lower == toLowerCase(message) IN
    \/ includes(lower, Chars("rate"))
    \/ includes(lower, Chars("429"))
    \/ includes(lower, Chars("too many requests"))
    \/ includes(lower, Chars("quota"))

\* createProviderError(provider, statusCode, message, modelId)
createProviderError(provider, statusCode, message, modelId) ==
    IF statusCode = 429 \/ isRateLimitError(message)
    THEN RateLimitError(provider, message, 60)
    ELSE ProviderError(provider, message, Str(modelId))

(***************************************************************************)
(* providers: the adapters (base.ts, openai-compatible, puter)             *)
(***************************************************************************)
\* an adapter: its name and the environment keys its call reads, in order
Adapter(name, envKeys) == [name |-> name, envKeys |-> envKeys]

\* providerRegistry: route -> adapter
providerRegistry ==
    [ r \in {"groq", "openrouter", "openai", "anthropic", "cloudflare", "puter"} |->
        CASE r = "groq"       -> Adapter("groq", <<"GROQ_API_KEY">>)
          [] r = "openrouter" -> Adapter("openrouter", <<"OPENROUTER_API_KEY">>)
          [] r = "openai"     -> Adapter("openai", <<"OPENAI_API_KEY">>)
          [] r = "anthropic"  -> Adapter("anthropic", <<"ANTHROPIC_API_KEY">>)
          [] r = "cloudflare" -> Adapter("cloudflare",
                                         <<"CLOUDFLARE_API_KEY", "CLOUDFLARE_ACCOUNT_ID">>)
          [] r = "puter"      -> Adapter("puter", <<>>) ]

\* directProviderMap: company -> adapter
directProviderMap ==
    [ c \in {"openai", "anthropic"} |-> providerRegistry[c] ]

Throw(e) == [threw |-> TRUE, error |-> e]
Return(v) == [threw |-> FALSE, value |-> v]

DQ == "\""

\* getProvider(route, company)
getProvider(route, company) ==
    IF route = "direct" \/ route = "direct_api"
    THEN IF company = ""
         THEN Throw(ProviderError("direct",
                        Chars("Company must be specified for direct API calls"), Undef))
         ELSE IF company \notin DOMAIN directProviderMap
         THEN Throw(ProviderError("direct",
                        Text(<<"Direct API for provider ", DQ, company, DQ,
                               " not yet implemented">>), Undef))
         ELSE Return(directProviderMap[company])
    ELSE IF route \notin DOMAIN providerRegistry
    THEN Throw(ProviderError(route,
                   Text(<<"Provider route ", DQ, route, DQ, " not implemented">>), Undef))
    ELSE Return(providerRegistry[route])

\* the first of the adapter's environment keys that is not set, "" when all are
missingKey(envKeys, env) ==
    IF \E i \in 1..Len(envKeys) : envKeys[i] \notin env
    THEN envKeys[CHOOSE i \in 1..Len(envKeys) :
                    envKeys[i] \notin env /\ \A j \in 1..(i-1) : envKeys[j] \in env]
    ELSE ""

\* handleErrorResponse(response, model) of the adapter named name
handleErrorResponse(name, reply, model) ==
    createProviderError(name, reply.status,
        Text(<<name, " API error: ", ToString(reply.status), " - ", reply.text>>),
        model.id)

\* provider.call(model, input): the outcome, and the HTTP requests it sent.
\* env is process.env, p the Puter SDK, reply what the provider's API answers.
providerCall(adapter, model, env, p, reply) ==
    IF adapter.name = "puter"
    THEN IF p.sdk = "absent" \/ p.ai = "missing"
         THEN [ outcome |-> Throw(ProviderError("puter",
                    Chars("Puter SDK not available - this endpoint only works inside Puter environment"),
                    Str(model.id))),
                requests |-> 0 ]
         ELSE IF p.ai = "rejects"
         THEN [ outcome |-> Throw(SdkError(p.message)), requests |-> 0 ]
         ELSE [ outcome |-> Return([data |-> OpenAIShape(Str("hi")), headers |-> <<>>]),
                requests |-> 0 ]
    ELSE IF missingKey(adapter.envKeys, env) # ""
    THEN [ outcome |-> Throw(ConfigurationError(missingKey(adapter.envKeys, env))),
           requests |-> 0 ]
    ELSE IF reply.failed
    THEN [ outcome |-> Throw(FetchError), requests |-> 1 ]
    ELSE IF ~reply.ok
    THEN [ outcome |-> Throw(handleErrorResponse(adapter.name, reply, model)),
           requests |-> 1 ]
    ELSE [ outcome |-> Return([data |-> reply.data, headers |-> reply.headers]),
           requests |-> 1 ]

(***************************************************************************)
(* services/health: HealthService.recordCall                               *)
(***************************************************************************)
MAX_HISTORY_PER_PROVIDER == 100

\* this.history[provider] || []
historyOf(h, provider) == IF provider \in DOMAIN h THEN h[provider] ELSE <<>>

\* the record pushed by recordCall at time t
healthRecord(modelId, success, latencyMs, errorMessage, t) ==
    [ model_id |-> modelId, success |-> success, latency_ms |-> latencyMs,
      error_message |-> errorMessage, timestamp |-> toISOString(t) ]

\* a recordCall that drops the newest record on overflow
recordCallDropNewest(h, provider, modelId, success, latencyMs, errorMessage, t) ==
    LET pushed == Append(historyOf(h, provider),
                         healthRecord(modelId, success, latencyMs, errorMessage, t))
        kept   == IF Len(pushed) > MAX_HISTORY_PER_PROVIDER
                  THEN SubSeq(pushed, 1, Len(pushed) - 1) ELSE pushed
    IN [ k \in (DOMAIN h) \cup {provider} |-> IF k = provider THEN kept ELSE h[k] ]

\* recordCall(provider, modelId, success, latencyMs, errorMessage) at time t
recordCall(h, provider, modelId, success, latencyMs, errorMessage, t) ==
    LET pushed == Append(historyOf(h, provider),
                         healthRecord(modelId, success, latencyMs, errorMessage, t))
        kept   == IF Len(pushed) > MAX_HISTORY_PER_PROVIDER THEN Tail(pushed) ELSE pushed
    IN [ k \in (DOMAIN h) \cup {provider} |-> IF k = provider THEN kept ELSE h[k] ]

(***************************************************************************)
(* providers/router: callProvider                                          *)
(***************************************************************************)
\* try { getProvider; provider.call }: the outcome, and how often the adapter
\* was called and how many HTTP requests went out
attempt(model, route, env, p, reply) ==
    LET found == getProvider(route, model.company) IN
    IF found.threw
    THEN [ outcome |-> found, adapterCalls |-> 0, requests |-> 0 ]
    ELSE LET called == providerCall(found.value, model, env, p, reply) IN
         [ outcome |-> called.outcome, adapterCalls |-> 1, requests |-> called.requests ]

\* the one element of a singleton set: binds a value that is computed once
Only(S) == CHOOSE x \in S : TRUE

\* callProvider's catch / finally, recording successful calls only
settleSuccessOnly(tried, model, route, reply, c, h, t) ==
    LET tEnd == IF tried.requests > 0 THEN t + reply.latency ELSE t IN
    IF tried.outcome.threw
    THEN [ threw |-> TRUE, error |-> tried.outcome.error, data |-> Undef,
           cache |-> c, history |-> h,
           now |-> tEnd, route |-> route,
           adapterCalls |-> tried.adapterCalls, requests |-> tried.requests ]
    ELSE [ threw |-> FALSE, error |-> Undef, data |-> tried.outcome.value.data,
           cache |-> updateFromHeaders(c, tEnd, route, model.id, tried.outcome.value.headers),
           history |-> recordCall(h, route, model.id, TRUE, tEnd - t, NullV, tEnd),
           now |-> tEnd, route |-> route,
           adapterCalls |-> tried.adapterCalls, requests |-> tried.requests ]

\* a callProvider that records successful calls only
callProviderRecordSuccessOnly(model, env, p, reply, c, h, t) ==
    LET route == IF model.route # "" THEN model.route ELSE model.provider IN
    Only({ settleSuccessOnly(tried, model, route, reply, c, h, t) :
             tried \in {attempt(model, route, env, p, reply)} })

\* callProvider's catch / finally, caching the headers of failed calls too
settleCachingFailures(tried, model, route, reply, c, h, t) ==
    LET tEnd == IF tried.requests > 0 THEN t + reply.latency ELSE t IN
    IF tried.outcome.threw
    THEN [ threw |-> TRUE, error |-> tried.outcome.error, data |-> Undef,
           cache |-> updateFromHeaders(c, tEnd, route, model.id, reply.headers),
           history |-> recordCall(h, route, model.id, FALSE, tEnd - t,
                                  Str(tried.outcome.error.message), tEnd),
           now |-> tEnd, route |-> route,
           adapterCalls |-> tried.adapterCalls, requests |-> tried.requests ]
    ELSE [ threw |-> FALSE, error |-> Undef, data |-> tried.outcome.value.data,
           cache |-> updateFromHeaders(c, tEnd, route, model.id, tried.outcome.value.headers),
           history |-> recordCall(h, route, model.id, TRUE, tEnd - t, NullV, tEnd),
           now |-> tEnd, route |-> route,
           adapterCalls |-> tried.adapterCalls, requests |-> tried.requests ]

\* callProvider after its try block came out as tried: the header update on
\* success, the catch block's rethrow, and the finally block's recordCall
settle(tried, model, route, reply, c, h, t) ==
    LET tEnd == IF tried.requests > 0 THEN t + reply.latency ELSE t IN
    IF tried.outcome.threw
    THEN [ threw |-> TRUE, error |-> tried.outcome.error, data |-> Undef,
           cache |-> c,
           history |-> recordCall(h, route, model.id, FALSE, tEnd - t,
                                  Str(tried.outcome.error.message), tEnd),
           now |-> tEnd, route |-> route,
           adapterCalls |-> tried.adapterCalls, requests |-> tried.requests ]
    ELSE [ threw |-> FALSE, error |-> Undef, data |-> tried.outcome.value.data,
           cache |-> updateFromHeaders(c, tEnd, route, model.id, tried.outcome.value.headers),
           history |-> recordCall(h, route, model.id, TRUE, tEnd - t, NullV, tEnd),
           now |-> tEnd, route |-> route,
           adapterCalls |-> tried.adapterCalls, requests |-> tried.requests ]

\* callProvider(model, input) begun at time t with rate-limit cache c and
\* health history h: how it completes and the state it leaves
callProvider(model, env, p, reply, c, h, t) ==
    LET route == IF model.route # "" THEN model.route ELSE model.provider IN
    Only({ settle(tried, model, route, reply, c, h, t) :
             tried \in {attempt(model, route, env, p, reply)} })

\* what a provider's API may answer: status, body text or JSON data, headers,
\* and the milliseconds the exchange takes
Reply(status, text, data, headers) ==
    [ status |-> status, ok |-> status \in 200..299, text |-> text, data |-> data,
      headers |-> headers, latency |-> 500, failed |-> FALSE ]

OkReplies ==
    { Reply(200, "", OpenAIShape(Str("hi")), "x-ratelimit-remaining-requests" :> v) :
        v \in {"0", "5"} }
    \cup { Reply(200, "", OpenAIShape(Str("hi")), "x-ratelimit-remaining-tokens" :> "0") }

ErrorReplies ==
    { Reply(429, "Too Many Requests", Undef, <<>>),
      Reply(500, "Internal error", Undef, <<>>),
      Reply(400, "Failed to generate", Undef, <<>>),
      Reply(500, "Too Many Requests", Undef, <<>>) }

\* a success whose JSON body is null
NullReply == Reply(200, "", NullV, <<>>)

\* no answer at all: the connection fails
FetchFailure == [ Reply(0, "", Undef, <<>>) EXCEPT !.failed = TRUE ]

\* one callProvider invocation for a descriptor of the catalog
CallProvider ==
    /\ phase \in {"start", "running"}
    /\ calls < MaxCalls
    /\ \E model \in Range(buildModelList(db)), reply \in upstream :
        \E done \in {callProvider(model, environment, puter, reply, cache, history, now)} :
           /\ cache' = done.cache
           /\ history' = done.history
           /\ recorded' =
                 [ k \in (DOMAIN recorded) \cup {done.route} |->
                     IF k = done.route
                     THEN Append(historyOf(recorded, k),
                                 healthRecord(model.id, ~done.threw, done.now - now,
                                              IF done.threw THEN Str(done.error.message)
                                              ELSE NullV,
                                              done.now))
                     ELSE recorded[k] ]
           /\ now' = done.now
           /\ outcome' = [ model |-> model,
                           reply |-> IF done.requests > 0 THEN reply ELSE NoResult, route |-> done.route,
                           threw |-> done.threw, error |-> done.error, data |-> done.data,
                           adapterCalls |-> done.adapterCalls, requests |-> done.requests,
                           historyBefore |-> history ]
           /\ lastOp' = [op |-> "call", provider |-> done.route, modelId |-> model.id]
    /\ cacheBefore' = cache
    /\ calls' = calls + 1
    /\ phase' = "running"
    /\ UNCHANGED <<waitTime, environment, upstream, providerStatus, selVars, inferVars,
                   extractVars, acctVars, runVars, storeVars>>

(***************************************************************************)
(* providers/puter: getPuterCredits                                        *)
(***************************************************************************)
\* The host's Puter SDK.  sdk: "absent" (typeof puter === 'undefined'),
\* "noauth" (puter without auth) or "auth"; ai: "missing", "resolves" or
\* "rejects"; isSignedIn and getUser resolve ("true"/"false", "resolves") or
\* reject with an Error carrying message.
Sdk(sdk, ai, isSignedIn, getUser, credits, message) ==
    [ sdk |-> sdk, ai |-> ai, isSignedIn |-> isSignedIn, getUser |-> getUser,
      credits |-> credits, username |-> "alice", message |-> message ]

SignedIn(credits) == Sdk("auth", "resolves", "true", "resolves", credits, "")

E_noSdk == "Puter SDK not available - not running inside Puter environment"
E_noUser == "No Puter user signed in"

Unavailable(error) ==
    [ available |-> FALSE, balance |-> NullV, username |-> Undef, error |-> Str(error) ]

\* getPuterCredits(): every failure of the SDK is caught and reported
getPuterCredits(p) ==
    IF p.sdk \in {"absent", "noauth"} THEN Unavailable(E_noSdk)
    ELSE IF p.isSignedIn = "rejects" THEN Unavailable(p.message)
    ELSE IF p.isSignedIn = "false" THEN Unavailable(E_noUser)
    ELSE IF p.getUser = "rejects" THEN Unavailable(p.message)
    ELSE [ available |-> TRUE,
           balance |-> IF truthy(p.credits) THEN p.credits ELSE Num(0),
           username |-> Str(p.username),
           error |-> NullV ]

(***************************************************************************)
(* routes/account: isModelUsable, checkBoostTierExhaustion, /account/status *)
(***************************************************************************)
\* BOOST_TIERS[boostTier] || null; "" stands for null
boostTierToCostTier(boostTier) ==
    CASE boostTier = "turbo" -> "remote_free"
      [] boostTier = "ultra" -> "credit_backed"
      [] OTHER -> ""

\* the first branch of isModelUsable: the model draws on Puter credits
usesCredits(model) == model.uses_puter_credits \/ model.cost_tier = "credit_backed"

\* an isModelUsable that looks at the rate-limit cache for credit models too
isModelUsableCacheFirst(model, c, p) ==
    LET recentLimits == get(c, model.provider, model.id) IN
    IF recentLimits # NullV /\ recentLimits.requests_remaining # NullV
       /\ recentLimits.requests_remaining.n <= 0
    THEN [ usable |-> FALSE, reason |-> "Rate limit exhausted", rate_limits |-> recentLimits ]
    ELSE IF usesCredits(model)
    THEN LET credits == getPuterCredits(p) IN
         [ usable |-> credits.available /\ credits.balance.n > 0,
           reason |-> IF credits.available THEN "Puter credits"
                      ELSE "Cannot verify Puter credits: " \o credits.error.s,
           credits_required |-> TRUE, credits_available |-> credits.balance ]
    ELSE [ usable |-> TRUE, reason |-> "No exhaustion detected (no recent rate limit data)",
           rate_limits |-> recentLimits ]

\* an isModelUsable that overlooks the cached token quota
isModelUsableRequestsOnly(model, c, p) ==
    IF usesCredits(model)
    THEN LET credits == getPuterCredits(p) IN
         [ usable |-> credits.available /\ credits.balance.n > 0,
           reason |-> IF credits.available THEN "Puter credits"
                      ELSE "Cannot verify Puter credits: " \o credits.error.s,
           credits_required |-> TRUE, credits_available |-> credits.balance ]
    ELSE LET recentLimits == get(c, model.provider, model.id) IN
         [ usable |-> ~(recentLimits # NullV /\ recentLimits.requests_remaining # NullV
                        /\ recentLimits.requests_remaining.n <= 0),
           reason |-> "", rate_limits |-> recentLimits ]

\* isModelUsable(model, _db), given the rate-limit cache c and the SDK p
isModelUsable(model, c, p) ==
    IF usesCredits(model)
    THEN LET credits == getPuterCredits(p) IN
         IF ~credits.available
         THEN [ usable |-> FALSE,
                reason |-> "Cannot verify Puter credits: " \o credits.error.s,
                credits_required |-> TRUE, credits_available |-> NullV ]
         ELSE IF credits.balance # NullV /\ credits.balance.n <= 0
         THEN [ usable |-> FALSE, reason |-> "Puter credits exhausted (balance: 0)",
                credits_required |-> TRUE, credits_available |-> credits.balance ]
         ELSE [ usable |-> TRUE, reason |-> "Puter credits available",
                credits_required |-> TRUE, credits_available |-> credits.balance ]
    ELSE LET recentLimits == get(c, model.provider, model.id) IN
         IF recentLimits # NullV /\ recentLimits.requests_remaining # NullV
            /\ recentLimits.requests_remaining.n <= 0
         THEN [ usable |-> FALSE,
                reason |-> "Rate limit exhausted for " \o model.provider \o " - "
                           \o ToString(recentLimits.requests_remaining.n)
                           \o " requests remaining",
                rate_limits |-> recentLimits ]
         ELSE IF recentLimits # NullV /\ recentLimits.tokens_remaining # NullV
                 /\ recentLimits.tokens_remaining.n <= 0
         THEN [ usable |-> FALSE,
                reason |-> "Token quota exhausted for " \o model.provider \o " - "
                           \o ToString(recentLimits.tokens_remaining.n)
                           \o " tokens remaining",
                rate_limits |-> recentLimits ]
         ELSE [ usable |-> TRUE,
                reason |-> "No exhaustion detected (no recent rate limit data)",
                rate_limits |-> recentLimits ]

\* the number of getPuterCredits calls one isModelUsable call makes
creditLookups(model) == IF usesCredits(model) THEN 1 ELSE 0

E_noTierModels == "No models available for this boost tier"

\* a tier check that reports exhaustion as soon as one model is unusable
checkBoostTierExhaustionAnyUnusable(boostTier, d, c, p) ==
    LET costTier == boostTierToCostTier(boostTier)
        tierModels == SelectSeq(buildModelList(d), LAMBDA m : m.cost_tier = costTier)
    IN [ boost_tier |-> boostTier, cost_tier |-> costTier, valid |-> TRUE,
         exhausted |-> \E i \in 1..Len(tierModels) : ~isModelUsable(tierModels[i], c, p).usable,
         reason |-> IF Len(tierModels) = 0 THEN E_noTierModels ELSE "",
         total_models |-> Len(tierModels) ]

\* checkBoostTierExhaustion(boostTier, db), given the cache c and the SDK p
checkBoostTierExhaustion(boostTier, d, c, p) ==
    LET costTier == boostTierToCostTier(boostTier) IN
    IF costTier = ""
    THEN [ boost_tier |-> boostTier, valid |-> FALSE,
           error |-> "Invalid boost_tier: " \o boostTier \o ". Must be 'turbo' or 'ultra'." ]
    ELSE
    LET allModels  == buildModelList(d)
        tierModels == SelectSeq(allModels, LAMBDA m : m.cost_tier = costTier)
    IN
    IF Len(tierModels) = 0
    THEN [ boost_tier |-> boostTier, cost_tier |-> costTier, valid |-> TRUE,
           exhausted |-> TRUE, reason |-> E_noTierModels,
           total_models |-> 0, usable_models |-> 0, unusable_models |-> 0 ]
    ELSE
    LET usabilityChecks ==
            [ i \in 1..Len(tierModels) |->
                [ model_id |-> tierModels[i].id, provider |-> tierModels[i].provider,
                  check |-> isModelUsable(tierModels[i], c, p) ] ]
        usableModels   == SelectSeq(usabilityChecks, LAMBDA k : k.check.usable)
        unusableModels == SelectSeq(usabilityChecks, LAMBDA k : ~k.check.usable)
        exhausted      == Len(usableModels) = 0
    IN [ boost_tier |-> boostTier, cost_tier |-> costTier, valid |-> TRUE,
         exhausted |-> exhausted,
         total_models |-> Len(tierModels),
         usable_models |-> Len(usableModels),
         unusable_models |-> Len(unusableModels),
         usable_model_ids |-> [i \in 1..Len(usableModels) |-> usableModels[i].model_id],
         unusable_model_ids |-> [i \in 1..Len(unusableModels) |-> unusableModels[i].model_id],
         unusable_reasons |->
             [i \in 1..Len(unusableModels) |->
                 [ model_id |-> unusableModels[i].model_id,
                   provider |-> unusableModels[i].provider,
                   reason |-> unusableModels[i].check.reason ]],
         message |->
             IF exhausted
             THEN "All eligible " \o boostTier \o " models are exhausted for this Puter account."
             ELSE ToString(Len(usableModels)) \o " of " \o ToString(Len(tierModels))
                  \o " " \o boostTier \o " models are still usable." ]

\* tierStatus.exhausted ?? false
exhaustedOrFalse(st) == IF "exhausted" \in DOMAIN st THEN st.exhausted ELSE FALSE

\* the body built from the credit lookup and the two tier checks
statusBody(boostTier, puterCredits, status, otherTierStatus, t) ==
    LET accountExhausted == exhaustedOrFalse(status) /\ exhaustedOrFalse(otherTierStatus)
    IN [ puter_account |->
             IF puterCredits # NullV /\ truthy(puterCredits.username)
             THEN puterCredits.username.s ELSE "unknown",
         puter_credits |-> puterCredits,
         boost_tier_requested |-> boostTier,
         boost_tier_status |-> status,
         other_tier_status |-> otherTierStatus,
         account_exhausted |-> accountExhausted,
         recommendation |->
             IF accountExhausted THEN "All boost tiers exhausted."
             ELSE IF exhaustedOrFalse(status) THEN boostTier \o " tier exhausted."
             ELSE boostTier \o " tier is still usable.",
         timestamp |-> toISOString(t) ]

\* the body GET /account/status answers with; query fields absent are ""
accountStatusBody(query, d, c, p, t) ==
    LET boostTier == IF query.boost_tier # "" THEN query.boost_tier ELSE "turbo"
        otherTier == IF boostTier = "turbo" THEN "ultra" ELSE "turbo"
    IN Only({ statusBody(boostTier, puterCredits, status, otherTierStatus, t) :
                puterCredits \in { IF boostTier = "ultra" \/ query.include_credits = "true"
                                   THEN getPuterCredits(p) ELSE NullV },
                status \in { checkBoostTierExhaustion(boostTier, d, c, p) },
                otherTierStatus \in { checkBoostTierExhaustion(otherTier, d, c, p) } })

(***************************************************************************)
(* Usability of single models (SpecUsable) and of tiers (SpecAccount)      *)
(***************************************************************************)
\* what the SDK's getUser may report as credits
CreditValues == { Undef, Num(0), Num(5), Num(0 - 2) }

PuterStates ==
    { NoSdk, Sdk("noauth", "resolves", "", "", Undef, ""),
      Sdk("auth", "resolves", "false", "", Undef, ""),
      Sdk("auth", "resolves", "rejects", "", Undef, "Failed to fetch"),
      Sdk("auth", "rejects", "true", "rejects", Undef, "Failed to fetch") }
    \cup { SignedIn(c) : c \in CreditValues }

\* one company; llama-3 is free and rate limited under two routes, gpt-4 draws
\* on credits by flag and whisper-1 by tier
AccountRegistry ==
    << [key |-> "meta",
        buckets |-> [b \in {"openrouter", "groq"} |->
                        IF b = "groq" THEN List(<<"llama-3", "gpt-4", "whisper-1">>)
                        ELSE List(<<"llama-3">>)]] >>

CreditFlag(flag) == Detail(FALSE, {}, "", "", FALSE, <<>>, "", flag)

UsableDb ==
    [ model_registry |-> AccountRegistry,
      model_details |-> ("gpt-4" :> CreditFlag(TRUE)) @@ ("whisper-1" :> TierOnly("credit_backed")),
      free_models |-> <<"llama-3", "gpt-4">> ]

AllKeys ==
    { "GROQ_API_KEY", "OPENROUTER_API_KEY", "OPENAI_API_KEY", "ANTHROPIC_API_KEY",
      "CLOUDFLARE_API_KEY", "CLOUDFLARE_ACCOUNT_ID" }

InitUsable ==
    /\ phase = "start"
    /\ db = UsableDb
    /\ puter \in PuterStates
    /\ environment = AllKeys
    /\ upstream = OkReplies
    /\ outcome = NoResult
    /\ models = <<>> /\ req = NoReq /\ suggestions = <<>> /\ picked = Null
    /\ usability = NoResult /\ tierStatus = NoResult /\ accountStatus = NoResult
    /\ InferIdle /\ ExtractIdle /\ RateIdle /\ HealthIdle /\ RunIdle /\ StoreIdle

\* await isModelUsable(model, db) for one descriptor of the catalog
IsModelUsable ==
    /\ phase \in {"start", "running"}
    /\ \E model \in Range(buildModelList(db)) :
        usability' = [ model |-> model, result |-> isModelUsable(model, cache, puter),
                       lookups |-> creditLookups(model) ]
    /\ phase' = "usability"
    /\ UNCHANGED <<puter, tierStatus, accountStatus, selVars, inferVars, extractVars,
                   rateVars, healthVars, callVars, runVars, storeVars>>

NextUsable == CallProvider \/ IsModelUsable

SpecUsable == InitUsable /\ [][NextUsable]_vars

\* a registry with one rate-limited and one credit-flagged model
SmallRegistry ==
    << [key |-> "meta", buckets |-> [b \in {"groq"} |-> List(<<"llama-3", "gpt-4">>)]] >>

\* catalogs with both tiers populated, with no model in either tier, and with
\* a turbo tier of one rate-limited and one credit-flagged model
AccountDbs ==
    { UsableDb,
      [ model_registry |-> AccountRegistry, model_details |-> <<>>, free_models |-> <<>> ],
      [ model_registry |-> SmallRegistry,
        model_details |-> "gpt-4" :> CreditFlag(TRUE),
        free_models |-> <<"llama-3", "gpt-4">> ] }

\* req.query of GET /account/status; boost_tier is whatever the caller sent
StatusQueries ==
    { [boost_tier |-> b, include_credits |-> i] :
        b \in {"", "turbo", "ultra", "mega"}, i \in {"", "true"} }

InitAccount ==
    /\ phase = "start"
    /\ db \in AccountDbs
    /\ puter \in { NoSdk, SignedIn(Num(0)), SignedIn(Num(5)) }
    /\ environment = AllKeys
    /\ upstream = OkReplies
    /\ outcome = NoResult
    /\ models = <<>> /\ req = NoReq /\ suggestions = <<>> /\ picked = Null
    /\ usability = NoResult /\ tierStatus = NoResult /\ accountStatus = NoResult
    /\ InferIdle /\ ExtractIdle /\ RateIdle /\ HealthIdle /\ RunIdle /\ StoreIdle

\* await checkBoostTierExhaustion(boostTier, db)
CheckBoostTierExhaustion ==
    /\ phase \in {"start", "running"}
    /\ \E boostTier \in {"turbo", "ultra", "mega"} :
        tierStatus' = checkBoostTierExhaustion(boostTier, db, cache, puter)
    /\ phase' = "tier"
    /\ UNCHANGED <<puter, usability, accountStatus, selVars, inferVars, extractVars,
                   rateVars, healthVars, callVars, runVars, storeVars>>

\* GET /account/status
GetAccountStatus ==
    /\ phase \in {"start", "running"}
    /\ \E query \in StatusQueries :
        accountStatus' = [ query |-> query, status |-> 200,
                           body |-> accountStatusBody(query, db, cache, puter, now) ]
    /\ phase' = "status"
    /\ UNCHANGED <<puter, usability, tierStatus, selVars, inferVars, extractVars,
                   rateVars, healthVars, callVars, runVars, storeVars>>

NextAccount == CallProvider \/ CheckBoostTierExhaustion \/ GetAccountStatus

SpecAccount == InitAccount /\ [][NextAccount]_vars

(***************************************************************************)
(* Provider calls over a run of the process (SpecDispatch)                 *)
(***************************************************************************)
\* openai is reachable directly, through groq, cloudflare and puter, and
\* through togetherai, a bucket without an adapter; meta is listed for a
\* direct API that has none
DispatchRegistry ==
    << [key |-> "openai",
        buckets |-> [b \in {"direct_api", "togetherai", "groq", "cloudflare", "puter"} |->
                        IF b \in {"direct_api", "puter"} THEN List(<<"gpt-4">>)
                        ELSE List(<<"llama-3">>)]],
       [key |-> "meta", buckets |-> [b \in {"direct_api"} |-> List(<<"llama-3">>)]] >>

DispatchDb ==
    [ model_registry |-> DispatchRegistry, model_details |-> <<>>, free_models |-> <<>> ]

\* process.env: every credential, all but Cloudflare's account id, none
Environments == { AllKeys, AllKeys \ {"CLOUDFLARE_ACCOUNT_ID"}, {} }

\* what the providers' APIs answer in this run
DispatchReplies ==
    { Reply(200, "", OpenAIShape(Str("hi")), "x-ratelimit-remaining-requests" :> "0"),
      Reply(200, "", OpenAIShape(Str("hi")), <<>>),
      FetchFailure }
    \cup ErrorReplies

InitDispatch ==
    /\ phase = "start"
    /\ db = DispatchDb
    /\ puter \in { NoSdk, SignedIn(Num(5)),
                   Sdk("auth", "rejects", "true", "resolves", Num(5), "Failed to fetch") }
    /\ environment \in Environments
    /\ upstream = DispatchReplies
    /\ outcome = NoResult
    /\ models = <<>> /\ req = NoReq /\ suggestions = <<>> /\ picked = Null
    /\ usability = NoResult /\ tierStatus = NoResult /\ accountStatus = NoResult
    /\ cache = <<>> /\ now = 0 /\ calls = 0
    /\ lastOp = [op |-> "none"] /\ cacheBefore = <<>> /\ waitTime = Undef
    /\ InferIdle /\ ExtractIdle /\ HealthIdle /\ RunIdle /\ StoreIdle

NextDispatch == CallProvider

SpecDispatch == InitDispatch /\ [][NextDispatch]_vars

(***************************************************************************)
(* services/health: HealthService.getProviderStatus                        *)
(***************************************************************************)
\* Math.round(sum / n) for integers sum >= 0, n > 0
roundDiv(sum, n) == (2 * sum + n) \div (2 * n)

RECURSIVE sumLatency(_)
\* reduce((sum, h) => sum + h.latency_ms, 0)
sumLatency(records) ==
    IF records = <<>> THEN 0 ELSE Head(records).latency_ms + sumLatency(Tail(records))

\* [...history].reverse().find((h) => h.success): the record, Undef when none
lastSuccessOf(records) ==
    IF \E i \in 1..Len(records) : records[i].success
    THEN records[CHOOSE i \in 1..Len(records) :
                    records[i].success /\ \A j \in (i+1)..Len(records) : ~records[j].success]
    ELSE Undef

\* the number of catalog descriptors of a provider
modelsAvailable(d, provider) ==
    Len(SelectSeq(buildModelList(d), LAMBDA m : m.provider = provider))

\* a getProviderStatus that compares the average before rounding it
getProviderStatusExactAverage(h, provider, d, t) ==
    LET records == historyOf(h, provider)
        recentHistory ==
            SelectSeq(records, LAMBDA r : dateGetTime(r.timestamp).n > t - 60 * 60 * 1000)
        lastSuccess == lastSuccessOf(records)
        successCount == Len(SelectSeq(recentHistory, LAMBDA r : r.success))
        totalCount == Len(recentHistory)
        successfulCalls == SelectSeq(recentHistory, LAMBDA r : r.success /\ r.latency_ms # 0)
        total == sumLatency(successfulCalls)
        n == Len(successfulCalls)
        byRate ==
            IF 100 * successCount >= 95 * totalCount /\ (n = 0 \/ total < 2000 * n)
            THEN "healthy"
            ELSE IF 2 * successCount >= totalCount /\ (n = 0 \/ total < 5000 * n)
            THEN "degraded" ELSE "down"
    IN [ provider |-> provider,
         status |-> IF totalCount = 0 THEN "unknown"
                    ELSE IF lastSuccess # Undef
                            /\ dateGetTime(lastSuccess.timestamp).n < t - 15 * 60 * 1000
                            /\ totalCount > 5
                    THEN "down" ELSE byRate,
         latency_ms |-> IF n > 0 THEN Num(roundDiv(total, n)) ELSE NullV,
         error_count_last_hour |-> totalCount - successCount,
         success_rate_last_hour |->
             IF totalCount > 0 THEN [num |-> successCount, den |-> totalCount] ELSE NullV ]

\* getProviderStatus(provider, db) at time t.  success_rate_last_hour is the
\* quotient successCount / totalCount, kept as its two terms.
getProviderStatus(h, provider, d, t) ==
    LET records == historyOf(h, provider) IN
    IF Len(records) = 0
    THEN [ provider |-> provider, status |-> "unknown", latency_ms |-> NullV,
           last_checked |-> NullV, last_success |-> NullV, last_error |-> NullV,
           error_count_last_hour |-> 0, success_rate_last_hour |-> NullV,
           models_available |-> modelsAvailable(d, provider) ]
    ELSE
    LET oneHourAgo == t - 60 * 60 * 1000
        recentHistory ==
            SelectSeq(records, LAMBDA r : dateGetTime(r.timestamp).n > oneHourAgo)
        lastCall == records[Len(records)]
        lastSuccess == lastSuccessOf(records)
        successCount == Len(SelectSeq(recentHistory, LAMBDA r : r.success))
        totalCount == Len(recentHistory)
        errorCount == Len(SelectSeq(recentHistory, LAMBDA r : ~r.success))
        successfulCalls == SelectSeq(recentHistory, LAMBDA r : r.success /\ r.latency_ms # 0)
        avgLatency ==
            IF Len(successfulCalls) > 0
            THEN Num(roundDiv(sumLatency(successfulCalls), Len(successfulCalls)))
            ELSE NullV
        \* successRate >= 0.95 and successRate >= 0.5, on the terms of the quotient
        byRate ==
            IF 100 * successCount >= 95 * totalCount
               /\ (avgLatency = NullV \/ avgLatency.n < 2000)
            THEN "healthy"
            ELSE IF 2 * successCount >= totalCount
                    /\ (avgLatency = NullV \/ avgLatency.n < 5000)
            THEN "degraded"
            ELSE "down"
        fifteenMinutesAgo == t - 15 * 60 * 1000
        status ==
            IF totalCount = 0 THEN "unknown"
            ELSE IF lastSuccess # Undef
                    /\ dateGetTime(lastSuccess.timestamp).n < fifteenMinutesAgo
                    /\ totalCount > 5
            THEN "down"
            ELSE byRate
    IN [ provider |-> provider, status |-> status, latency_ms |-> avgLatency,
         last_checked |-> Str(lastCall.timestamp),
         last_success |-> IF lastSuccess # Undef THEN Str(lastSuccess.timestamp) ELSE NullV,
         last_error |-> IF ~lastCall.success THEN lastCall.error_message ELSE NullV,
         error_count_last_hour |-> errorCount,
         success_rate_last_hour |->
             IF totalCount > 0 THEN [num |-> successCount, den |-> totalCount] ELSE NullV,
         models_available |-> modelsAvailable(d, provider) ]

(***************************************************************************)
(* The health tracker over a run of the process (SpecHealth)               *)
(***************************************************************************)
MaxMinutes == 65      \* minutes that pass in one run of the health tracker

\* n records of calls made at time 0
Successes(n, latencyMs) ==
    [ i \in 1..n |-> healthRecord("llama-3", TRUE, latencyMs, NullV, 0) ]

Failures(n) ==
    [ i \in 1..n |-> healthRecord("llama-3", FALSE, 0, Str(Chars("Internal error")), 0) ]

\* n successful calls, told apart by their latencies 1..n
Numbered(n) == [ i \in 1..n |-> healthRecord("llama-3", TRUE, i, NullV, 0) ]

\* histories of one provider that earlier calls have left behind
EarlierHistories ==
    { <<>>, Failures(5), Successes(6, 100), Successes(10, 100) \o Failures(9),
      Successes(2, 6000), Numbered(MAX_HISTORY_PER_PROVIDER - 1),
      Numbered(MAX_HISTORY_PER_PROVIDER) }

\* the calls recordCall is told of: provider, success, latency, error message
RecordedCalls ==
    { [provider |-> "groq", success |-> TRUE, latency |-> l, error |-> NullV] :
        l \in {1999, 2000} }
    \cup { [provider |-> p, success |-> FALSE, latency |-> 0,
            error |-> Str(Chars("Internal error"))] : p \in {"groq", "openrouter"} }

InitHealth ==
    /\ phase = "start"
    /\ \E e \in EarlierHistories :
        /\ history = (IF e = <<>> THEN <<>> ELSE "groq" :> e)
        /\ recorded = history
    /\ providerStatus = NoResult
    /\ cache = <<>> /\ now = 0 /\ calls = 0
    /\ lastOp = [op |-> "none"] /\ cacheBefore = <<>> /\ waitTime = Undef
    /\ SelIdle /\ InferIdle /\ ExtractIdle /\ AccountIdle /\ DispatchIdle /\ RunIdle /\ StoreIdle

\* healthService.recordCall(provider, modelId, success, latencyMs, errorMessage)
RecordCall ==
    /\ phase \in {"start", "running"}
    /\ calls < MaxCalls
    /\ \E call \in RecordedCalls :
        LET after == recordCall(history, call.provider, "llama-3", call.success,
                                call.latency, call.error, now)
        IN /\ history' = after
           /\ recorded' =
                 [ k \in (DOMAIN recorded) \cup {call.provider} |->
                     IF k = call.provider
                     THEN Append(historyOf(recorded, k),
                                 healthRecord("llama-3", call.success, call.latency,
                                              call.error, now))
                     ELSE recorded[k] ]
           /\ lastOp' = [op |-> "record", provider |-> call.provider, before |-> history]
    /\ calls' = calls + 1
    /\ phase' = "running"
    /\ UNCHANGED <<cache, now, cacheBefore, waitTime, providerStatus, selVars, inferVars,
                   extractVars, acctVars, callVars, runVars, storeVars>>

\* time passes between calls
Elapse ==
    /\ phase \in {"start", "running"}
    /\ \E minutes \in {20, 45} :
        /\ now + 60000 * minutes <= 60000 * MaxMinutes
        /\ now' = now + 60000 * minutes
    /\ UNCHANGED <<phase, cache, calls, lastOp, cacheBefore, waitTime, healthVars,
                   selVars, inferVars, extractVars, acctVars, callVars, runVars, storeVars>>

\* healthService.getProviderStatus(provider, db)
GetProviderStatus ==
    /\ phase \in {"start", "running"}
    /\ \E provider \in {"groq", "openrouter"} :
        providerStatus' = getProviderStatus(history, provider, db, now)
    /\ phase' = "health"
    /\ UNCHANGED <<history, recorded, rateVars, selVars, inferVars, extractVars,
                   acctVars, callVars, runVars, storeVars>>

NextHealth == RecordCall \/ Elapse \/ GetProviderStatus

SpecHealth == InitHealth /\ [][NextHealth]_vars

(***************************************************************************)
(* routes/run: POST /run                                                   *)
(***************************************************************************)
\* a handler that selects from the whole catalog whatever the boost tier
tierModelsUnfiltered(body, d) == buildModelList(d)

\* the catalog narrowed to the boost tier, when one is given and known
tierModels(body, d) ==
    IF body.boost_tier # "" /\ boostTierToCostTier(body.boost_tier) # ""
    THEN SelectSeq(buildModelList(d),
                   LAMBDA m : m.cost_tier = boostTierToCostTier(body.boost_tier))
    ELSE buildModelList(d)

\* the catch block of POST /run for an error with the given message, at time
\* tEnd of a request begun at t; body fields the request leaves out are ""
runFailure(body, d, message, t, tEnd) ==
    LET isRateLimit == isRateLimitError(message)
        ms       == tierModels(body, d)
        selected == IF body.model_id # "" THEN findById(ms, body.model_id) ELSE Null
        capability == IF body.capability # "" THEN body.capability ELSE "chat"
        alternatives ==
            SelectSeq(suggestModels(ms, [provider |-> "", cost_tier |-> "",
                                         capability |-> capability,
                                         max_cost_tier |->
                                            IF body.max_cost_tier # ""
                                            THEN body.max_cost_tier ELSE "remote_free"]),
                      LAMBDA m : m.id # selected.model.id
                                 /\ m.provider # selected.model.provider)
        suggestion ==
            IF isRateLimit /\ selected.found /\ Len(alternatives) > 0
            THEN [ t |-> "object",
                   next_best_model |-> alternatives[1].id,
                   next_best_provider |-> alternatives[1].provider,
                   reason |-> "Same capability, different provider" ]
            ELSE NullV
    IN [ status |-> IF isRateLimit THEN 429 ELSE 500,
         body |-> [ error |-> message,
                    error_type |-> IF isRateLimit THEN "rate_limit_exceeded"
                                   ELSE "provider_error",
                    provider |-> IF selected.found THEN Str(selected.model.provider) ELSE Undef,
                    model_id |-> IF selected.found THEN Str(selected.model.id) ELSE Undef,
                    retry_after_seconds |-> IF isRateLimit THEN Num(60) ELSE NullV,
                    suggestion |-> suggestion,
                    metadata |-> [ execution_time_ms |-> tEnd - t,
                                   timestamp |-> toISOString(tEnd) ] ] ]

\* what the handler answers once selection gave selected and the provider
\* call came out as done (NoResult when nothing was selected)
respond(body, d, p, c, h, t, ms, selected, done) ==
    LET boostTier == body.boost_tier
        asked     == [ status |-> 0, body |-> <<>>, call |-> NoResult,
                       cache |-> c, history |-> h, now |-> t ]
    IN
    IF ~selected.found
    THEN [ asked EXCEPT !.status = 400,
             !.body = [ error |-> "No model matched request", request |-> body,
                        boost_tier |-> boostTier,
                        available_models_count |-> Len(ms) ] ]
    ELSE
    LET made == [ asked EXCEPT !.call = done @@ [model |-> selected.model],
                    !.cache = done.cache, !.history = done.history, !.now = done.now ]
    IN
    IF done.threw
    THEN LET failure == runFailure(body, d, done.error.message, t, done.now)
         IN [ made EXCEPT !.status = failure.status, !.body = failure.body ]
    ELSE
    LET exhaustionCheck ==
            IF boostTier # "" THEN checkBoostTierExhaustion(boostTier, d, done.cache, p)
            ELSE NullV
        output == extractContent(done.data)
    IN
    IF output.threw
    THEN LET failure == runFailure(body, d, TypeError.message, t, done.now)
         IN [ made EXCEPT !.status = failure.status, !.body = failure.body ]
    ELSE [ made EXCEPT !.status = 200,
             !.body = [ model_id |-> selected.model.id,
                        provider |-> selected.model.provider,
                        route |-> selected.model.route,
                        output |-> output.value,
                        raw_provider_response |-> done.data,
                        error |-> NullV,
                        metadata |-> [ cost_tier |-> selected.model.cost_tier,
                                       boost_tier |-> IF boostTier # "" THEN Str(boostTier)
                                                      ELSE NullV,
                                       execution_time_ms |-> done.now - t,
                                       timestamp |-> toISOString(done.now) ],
                        boost_tier_exhausted |->
                            IF exhaustionCheck # NullV
                            THEN exhaustedOrFalse(exhaustionCheck) ELSE FALSE,
                        boost_tier_message |->
                            IF exhaustionCheck # NullV /\ "message" \in DOMAIN exhaustionCheck
                            THEN Str(exhaustionCheck.message) ELSE NullV ] ]

\* POST /run with the given body, begun at time t: the response, the provider
\* call it made (NoResult when it made none) and the state it leaves
postRun(body, d, env, p, reply, c, h, t) ==
    IF body.boost_tier # "" /\ boostTierToCostTier(body.boost_tier) = ""
    THEN [ status |-> 400,
           body |-> [ error |-> "Invalid boost_tier: " \o body.boost_tier
                                \o ". Must be 'turbo' or 'ultra'." ],
           call |-> NoResult, cache |-> c, history |-> h, now |-> t ]
    ELSE
    Only(UNION {
        UNION {
            { respond(body, d, p, c, h, t, ms, selected, done) :
                done \in { IF selected.found
                           THEN callProvider(selected.model, env, p, reply, c, h, t)
                           ELSE NoResult } } :
            selected \in { pickModel(ms, [ model_id |-> body.model_id,
                                           capability |-> body.capability,
                                           max_cost_tier |-> body.max_cost_tier ]) } } :
        ms \in { tierModels(body, d) } })

(***************************************************************************)
(* One /run request (SpecRun)                                              *)
(***************************************************************************)
\* llama-3 through groq and gpt-4 through openrouter, both chat models
RunRegistry ==
    << [key |-> "meta",
        buckets |-> [b \in {"groq", "openrouter"} |->
                        IF b = "groq" THEN List(<<"llama-3">>) ELSE List(<<"gpt-4">>)]] >>

\* the two models free, the two models paid, llama-3 free beside a
\* credit-backed gpt-4, and llama-3 free under both providers
RunDbs ==
    { [ model_registry |-> RunRegistry, model_details |-> <<>>, free_models |-> f ] :
        f \in { <<"llama-3", "gpt-4">>, <<>> } }
    \cup { [ model_registry |-> RunRegistry,
             model_details |-> "gpt-4" :> TierOnly("credit_backed"),
             free_models |-> <<"llama-3">> ] }
    \cup { [ model_registry |->
                << [key |-> "meta",
                    buckets |-> [b \in {"groq", "openrouter"} |-> List(<<"llama-3">>)]] >>,
             model_details |-> <<>>, free_models |-> <<"llama-3">> ] }

\* request bodies; a field left out is ""
RunBodies ==
    [ model_id : {"", "llama-3", "gpt-4", "whisper-1"},
      capability : {"", "chat", "vision"},
      max_cost_tier : {"", "remote_free", "paid"},
      boost_tier : {"", "turbo", "ultra", "mega"} ]

RunReplies ==
    { Reply(200, "", OpenAIShape(Str("hi")), "x-ratelimit-remaining-requests" :> "0"),
      Reply(429, "Too Many Requests", Undef, <<>>),
      Reply(500, "Internal error", Undef, <<>>),
      NullReply }

InitRun ==
    /\ phase = "start"
    /\ db \in RunDbs
    /\ puter = NoSdk
    /\ environment = AllKeys
    /\ upstream = RunReplies
    /\ outcome = NoResult
    /\ models = <<>> /\ req = NoReq /\ suggestions = <<>> /\ picked = Null
    /\ usability = NoResult /\ tierStatus = NoResult /\ accountStatus = NoResult
    /\ InferIdle /\ ExtractIdle /\ RateIdle /\ HealthIdle /\ RunIdle /\ StoreIdle

\* router.post('/run', ...)
PostRun ==
    /\ phase = "start"
    /\ \E body \in RunBodies, reply \in upstream :
        \E done \in {postRun(body, db, environment, puter, reply, cache, history, now)} :
           /\ runReq' = body
           /\ runRes' = [status |-> done.status, body |-> done.body]
           /\ cache' = done.cache
           /\ history' = done.history
           /\ recorded' =
                 IF done.call = NoResult THEN recorded
                 ELSE [ k \in (DOMAIN recorded) \cup {done.call.route} |->
                          IF k = done.call.route
                          THEN Append(historyOf(recorded, k),
                                      healthRecord(done.call.model.id, ~done.call.threw,
                                                   done.now - now,
                                                   IF done.call.threw
                                                   THEN Str(done.call.error.message)
                                                   ELSE NullV,
                                                   done.now))
                          ELSE recorded[k] ]
           /\ now' = done.now
           /\ outcome' =
                 IF done.call = NoResult THEN NoResult
                 ELSE [ model |-> done.call.model,
                        reply |-> IF done.call.requests > 0 THEN reply ELSE NoResult,
                        route |-> done.call.route, threw |-> done.call.threw,
                        error |-> done.call.error, data |-> done.call.data,
                        adapterCalls |-> done.call.adapterCalls,
                        requests |-> done.call.requests, historyBefore |-> history ]
           /\ calls' = IF done.call = NoResult THEN calls ELSE calls + 1
    /\ lastOp' = [op |-> "run"]
    /\ cacheBefore' = cache
    /\ phase' = "done"
    /\ UNCHANGED <<waitTime, environment, upstream, providerStatus, selVars, inferVars,
                   extractVars, acctVars, storeVars>>

NextRun == PostRun

SpecRun == InitRun /\ [][NextRun]_vars

(***************************************************************************)
(* Usability verdicts after provider calls, for a descriptor whose         *)
(* provider is set by the catalog overlay (SpecVerdict)                    *)
(***************************************************************************)
\* model_details[id].provider alone
ProviderOverlay(provider) == Detail(FALSE, {}, provider, "", FALSE, <<>>, "", FALSE)

\* two free models: llama-3 of provider and route groq, and gpt-4 routed
\* through openrouter with provider openai
VerdictDb ==
    [ model_registry |-> RunRegistry,
      model_details |-> "gpt-4" :> ProviderOverlay("openai"),
      free_models |-> <<"llama-3", "gpt-4">> ]

InitVerdict ==
    /\ phase = "start"
    /\ db = VerdictDb
    /\ puter \in { NoSdk, SignedIn(Num(5)) }
    /\ environment = AllKeys
    /\ upstream = OkReplies
    /\ outcome = NoResult
    /\ models = <<>> /\ req = NoReq /\ suggestions = <<>> /\ picked = Null
    /\ usability = NoResult /\ tierStatus = NoResult /\ accountStatus = NoResult
    /\ InferIdle /\ ExtractIdle /\ RateIdle /\ HealthIdle /\ RunIdle /\ StoreIdle

NextVerdict == CallProvider \/ IsModelUsable \/ CheckBoostTierExhaustion

SpecVerdict == InitVerdict /\ [][NextVerdict]_vars
(***************************************************************************)
(* routes/preflight: POST /preflight                                       *)
(***************************************************************************)
\* TASK_CAPABILITY_MAP[task_type]; "" stands for undefined
TASK_CAPABILITY_MAP(taskType) ==
    CASE taskType = "chat" -> "chat"
      [] taskType = "reasoning" -> "reasoning"
      [] taskType = "coding" -> "coding"
      [] taskType = "image_generation" -> "images"
      [] taskType = "speech" -> "audio_speech"
      [] taskType = "music" -> "audio_music"
      [] taskType = "vision" -> "vision"
      [] taskType = "video" -> "video"
      [] OTHER -> ""

\* m.capabilities?.[capability] === true
hasCapability(m, capability) ==
    capability \in DOMAIN m.capabilities /\ m.capabilities[capability]

\* tierStatus.usable_model_ids || []
usableIdsOf(st) == IF "usable_model_ids" \in DOMAIN st THEN st.usable_model_ids ELSE <<>>

\* tierStatus.message, undefined when the tier check set none
messageOf(st) == IF "message" \in DOMAIN st THEN Str(st.message) ELSE Undef

\* candidateModels.sort((a, b) => (b.ratings?.speed || 0) - (a.ratings?.speed || 0))[0]:
\* the sort is stable, so the first of the fastest candidates comes out
fastest(ms) ==
    ms[CHOOSE i \in 1..Len(ms) :
          /\ \A j \in 1..Len(ms) : ratingOr0(ms[j].ratings, "speed") <= ratingOr0(ms[i].ratings, "speed")
          /\ \A j \in 1..(i - 1) : ratingOr0(ms[j].ratings, "speed") < ratingOr0(ms[i].ratings, "speed")]

\* the candidates of a request: models of the tier whose id the tier check
\* found usable, narrowed by capability and by the task type's capability
preflightCandidates(body, d, st) ==
    LET inTier == SelectSeq(buildModelList(d),
                            LAMBDA m : m.cost_tier = st.cost_tier
                                       /\ m.id \in Range(usableIdsOf(st)))
        byCapability == IF body.capability # ""
                        THEN SelectSeq(inTier, LAMBDA m : hasCapability(m, body.capability))
                        ELSE inTier
        requiredCap == TASK_CAPABILITY_MAP(body.task_type)
    IN IF body.task_type # "" /\ requiredCap # ""
       THEN SelectSeq(byCapability, LAMBDA m : hasCapability(m, requiredCap))
       ELSE byCapability

\* the 200 answer of POST /preflight, given the tier check and the candidates
preflightBody(body, st, candidateModels, message, t) ==
    LET canRun == Len(candidateModels) > 0 IN
    [ boost_tier |-> body.boost_tier,
      cost_tier |-> st.cost_tier,
      boost_tier_exhausted |-> st.exhausted,
      can_run |-> canRun,
      candidate_models |->
          [ i \in 1..Len(candidateModels) |->
              [ model_id |-> candidateModels[i].id,
                provider |-> candidateModels[i].provider,
                capabilities |-> candidateModels[i].capabilities,
                ratings |-> candidateModels[i].ratings ] ],
      suggested_model |-> IF canRun THEN Str(fastest(candidateModels).id) ELSE NullV,
      message |-> IF ~canRun THEN message
                  ELSE Str(ToString(Len(candidateModels))
                           \o " model(s) available for this task in "
                           \o body.boost_tier \o " tier."),
      timestamp |-> toISOString(t) ]

\* POST /preflight with req.body = body (fields left out are ""), given the
\* database d, the rate-limit cache c, the health histories h, the ratings
\* overrides o and the SDK p; the services come back as the handler leaves them
preflight(body, d, c, h, o, p, t) ==
    LET served == [ status |-> 200, body |-> <<>>, cache |-> c, history |-> h,
                    overrides |-> o, requests |-> 0 ] IN
    IF body.boost_tier = ""
    THEN [ served EXCEPT !.status = 400,
             !.body = [ error |-> "boost_tier is required (must be \"turbo\" or \"ultra\")" ] ]
    ELSE Only({ IF ~st.valid
                THEN [ served EXCEPT !.status = 400, !.body = [ error |-> st.error ] ]
                ELSE [ served EXCEPT !.body =
                         preflightBody(body, st, preflightCandidates(body, d, st),
                                       messageOf(st), t) ] :
                st \in { checkBoostTierExhaustion(body.boost_tier, d, c, p) } })

(***************************************************************************)
(* routes/preflight: POST /api/preflight/batch                             *)
(***************************************************************************)
MaxTasks == 2          \* tasks in a modelled batch

DEFAULT_RPM == 999
DEFAULT_TPM == 999999
DEFAULT_TASK_TOKENS == 500
MAX_BATCH_TASKS == 20

\* simulatedUsage[providerKey] || { requests: 0, tokens: 0 }
simulatedOf(usage, providerKey) ==
    IF providerKey \in DOMAIN usage THEN usage[providerKey] ELSE [requests |-> 0, tokens |-> 0]

\* cached?.[field] ?? staticLimits[key] ?? fallback
remainingOr(cached, field, staticLimits, key, fallback) ==
    IF cached # NullV /\ cached[field] # NullV THEN cached[field].n
    ELSE IF key \in DOMAIN staticLimits THEN staticLimits[key]
    ELSE fallback

\* task.estimated_tokens || 500; an estimate left out is 0
taskTokensOf(task) ==
    IF task.estimated_tokens # 0 THEN task.estimated_tokens ELSE DEFAULT_TASK_TOKENS

\* the test of the loop over sortedCandidates
withinLimits(candidate, task, c, usage) ==
    LET cached    == get(c, candidate.provider, candidate.id)
        simulated == simulatedOf(usage, candidate.provider)
    IN /\ remainingOr(cached, "requests_remaining", candidate.limits, "rpm", DEFAULT_RPM)
            - simulated.requests > 0
       /\ remainingOr(cached, "tokens_remaining", candidate.limits, "tpm", DEFAULT_TPM)
            - simulated.tokens >= taskTokensOf(task)

\* the models a task may use, ranked by suggestModels
sortedCandidatesOf(task, allModels, costTier) ==
    LET byId == IF task.model_id # ""
                THEN SelectSeq(allModels, LAMBDA m : m.id = task.model_id) ELSE allModels
        byProvider == IF task.provider # ""
                      THEN SelectSeq(byId, LAMBDA m : m.provider = task.provider) ELSE byId
        byCapability == IF task.capability # ""
                        THEN SelectSeq(byProvider, LAMBDA m : hasCapability(m, task.capability))
                        ELSE byProvider
    IN suggestModels(byCapability,
                     [ provider |-> "", cost_tier |-> "",
                       capability |-> IF task.capability # "" THEN task.capability ELSE "chat",
                       max_cost_tier |-> costTier ])

\* one entry of results; fields a branch leaves out are undefined
taskResult(i, canRun, reason, model, provider, wait) ==
    [ task_index |-> i, can_run |-> canRun, reason |-> reason, suggested_model |-> model,
      suggested_provider |-> provider, estimated_wait_seconds |-> wait ]

\* one turn of the loop over tasks: the result pushed and the usage afterwards
checkTask(i, task, allModels, boostTier, costTier, c, usage, t) ==
    LET capability == IF task.capability # "" THEN task.capability ELSE "chat" IN
    Only({ IF Len(sortedCandidates) = 0
           THEN [ usage |-> usage,
                  result |-> taskResult(i, FALSE,
                                 "No " \o capability \o " models available in " \o boostTier
                                 \o " tier" \o (IF task.provider # ""
                                                THEN " from " \o task.provider ELSE ""),
                                 Undef, Undef, Undef) ]
           ELSE LET usable == { k \in 1..Len(sortedCandidates) :
                                   withinLimits(sortedCandidates[k], task, c, usage) } IN
                IF usable # {}
                THEN LET candidate == sortedCandidates[CHOOSE k \in usable :
                                                          \A j \in usable : k <= j]
                         simulated == simulatedOf(usage, candidate.provider)
                     IN [ usage |->
                              [ k \in (DOMAIN usage) \cup {candidate.provider} |->
                                  IF k = candidate.provider
                                  THEN [ requests |-> simulated.requests + 1,
                                         tokens |-> simulated.tokens + taskTokensOf(task) ]
                                  ELSE usage[k] ],
                          result |-> taskResult(i, TRUE,
                                         IF task.model_id # "" THEN "Requested model available"
                                         ELSE "Within rate limits",
                                         Str(candidate.id), Str(candidate.provider), Undef) ]
                ELSE LET exhaustedProviders ==
                             { sortedCandidates[k].provider : k \in 1..Len(sortedCandidates) }
                         alternatives ==
                             SelectSeq(allModels,
                                       LAMBDA m : m.provider \notin exhaustedProviders
                                                  /\ hasCapability(m, capability))
                     IN [ usage |-> usage,
                          result |-> taskResult(i, FALSE,
                                         "Provider " \o sortedCandidates[1].provider
                                         \o " rate limited",
                                         IF Len(alternatives) > 0
                                         THEN Str(alternatives[1].id) ELSE Undef,
                                         IF Len(alternatives) > 0
                                         THEN Str(alternatives[1].provider) ELSE Undef,
                                         getWaitTime(c, t, sortedCandidates[1].provider,
                                                     sortedCandidates[1].id)) ] :
           sortedCandidates \in { sortedCandidatesOf(task, allModels, costTier) } })

\* the loop over tasks i..: results pushed and the simulated usage at the end
RECURSIVE checkTasks(_, _, _, _, _, _, _, _)
checkTasks(i, tasks, allModels, boostTier, costTier, c, usage, t) ==
    IF i > Len(tasks) THEN [ results |-> <<>>, usage |-> usage ]
    ELSE Only({ Only({ [ results |-> <<one.result>> \o rest.results, usage |-> rest.usage ] :
                       rest \in { checkTasks(i + 1, tasks, allModels, boostTier, costTier,
                                             c, one.usage, t) } }) :
                one \in { checkTask(i - 1, tasks[i], allModels, boostTier, costTier,
                                    c, usage, t) } })

\* totalTokens += task.estimated_tokens || 0
RECURSIVE totalTokensOf(_)
totalTokensOf(tasks) ==
    IF tasks = <<>> THEN 0 ELSE tasks[1].estimated_tokens + totalTokensOf(Tail(tasks))

\* the recommendation line of a batch
recommendationOf(results, n) ==
    LET runnable == Len(SelectSeq(results, LAMBDA r : r.can_run))
        blocked  == Len(SelectSeq(results, LAMBDA r : ~r.can_run))
        blockedWithAlt == Len(SelectSeq(results, LAMBDA r : ~r.can_run
                                                            /\ truthy(r.suggested_provider)))
        waits == { results[k].estimated_wait_seconds.n :
                     k \in { j \in 1..Len(results) :
                               truthy(results[j].estimated_wait_seconds) } }
    IN IF blocked = 0 THEN "All " \o ToString(n) \o " tasks can run immediately."
       ELSE IF runnable = 0
       THEN "All tasks blocked. Consider switching boost tier or waiting for rate limits to reset."
       ELSE ToString(runnable) \o " of " \o ToString(n) \o " tasks can run immediately."
            \o (IF blockedWithAlt > 0
                THEN " " \o ToString(blockedWithAlt)
                     \o " task(s) have alternative providers available."
                ELSE "")
            \o (IF waits # {} /\ (CHOOSE w \in waits : \A v \in waits : w <= v) < 120
                THEN " Wait " \o ToString(CHOOSE w \in waits : \A v \in waits : w <= v)
                     \o "s for rate limits to reset."
                ELSE "")

\* the 200 answer of a batch, from what the loop over tasks produced
batchBody(tasks, checked, t) ==
    LET blocked == Len(SelectSeq(checked.results, LAMBDA r : ~r.can_run)) IN
    [ batch_can_run |-> blocked = 0,
      tasks_runnable |-> Len(checked.results) - blocked,
      tasks_blocked |-> blocked,
      total_estimated_tokens |-> totalTokensOf(tasks),
      results |-> checked.results,
      recommendation |-> recommendationOf(checked.results, Len(tasks)),
      timestamp |-> toISOString(t) ]

\* a batch check that books its simulated usage on the rate-limit cache
batchPreflightCharging(body, d, c, h, o, t) ==
    LET served == [ status |-> 200, body |-> <<>>, cache |-> c, history |-> h,
                    overrides |-> o, requests |-> 0 ] IN
    IF body.boost_tier \notin {"turbo", "ultra"} \/ body.tasks.kind # "array"
       \/ Len(body.tasks.ids) = 0 \/ Len(body.tasks.ids) > MAX_BATCH_TASKS
    THEN [ served EXCEPT !.status = 400, !.body = [ error |-> "bad request" ] ]
    ELSE Only({ [ served EXCEPT
                    !.body = batchBody(body.tasks.ids, checked, t),
                    !.cache = [ k \in (DOMAIN c) \cup
                                      { getCacheKey(pr, "") : pr \in DOMAIN checked.usage } |->
                                  IF k \in DOMAIN c THEN c[k] ELSE cachedEntry(NoLimits, t) ] ] :
                checked \in { checkTasks(1, body.tasks.ids,
                                 SelectSeq(buildModelList(d),
                                    LAMBDA m : m.cost_tier = boostTierToCostTier(body.boost_tier)),
                                 body.boost_tier, boostTierToCostTier(body.boost_tier),
                                 c, <<>>, t) } })

\* POST /api/preflight/batch with req.body = body; tasks is a list (kind
\* "array") or something else; the services come back as the handler leaves them
batchPreflight(body, d, c, h, o, t) ==
    LET served == [ status |-> 200, body |-> <<>>, cache |-> c, history |-> h,
                    overrides |-> o, requests |-> 0 ] IN
    IF body.boost_tier \notin {"turbo", "ultra"}
    THEN [ served EXCEPT !.status = 400,
             !.body = [ error |-> "boost_tier is required and must be \"turbo\" or \"ultra\"" ] ]
    ELSE IF body.tasks.kind # "array" \/ Len(body.tasks.ids) = 0
    THEN [ served EXCEPT !.status = 400,
             !.body = [ error |-> "tasks must be a non-empty array" ] ]
    ELSE IF Len(body.tasks.ids) > MAX_BATCH_TASKS
    THEN [ served EXCEPT !.status = 400,
             !.body = [ error |-> "Maximum 20 tasks per batch preflight check" ] ]
    ELSE Only({ [ served EXCEPT !.body = batchBody(body.tasks.ids, checked, t) ] :
                checked \in { checkTasks(1, body.tasks.ids,
                                 SelectSeq(buildModelList(d),
                                    LAMBDA m : m.cost_tier = boostTierToCostTier(body.boost_tier)),
                                 body.boost_tier, boostTierToCostTier(body.boost_tier),
                                 c, <<>>, t) } })
(***************************************************************************)
(* Preflight checks between provider calls (SpecPreflight)                 *)
(***************************************************************************)
\* successes that leave one request, or none, for the minute
PreflightReplies ==
    { Reply(200, "", OpenAIShape(Str("hi")), "x-ratelimit-remaining-requests" :> v) :
        v \in {"0", "1"} }

\* req.body of POST /preflight
PreflightBodies ==
    { [boost_tier |-> b, capability |-> c, task_type |-> k] :
        b \in {"", "turbo", "ultra", "mega"}, c \in {"", "chat", "vision"},
        k \in {"", "speech", "bogus"} }

Task(modelId, provider, capability, tokens) ==
    [ model_id |-> modelId, provider |-> provider, capability |-> capability,
      estimated_tokens |-> tokens ]

TaskChoices ==
    { Task("", "", "", 0), Task("llama-3", "groq", "chat", 600), Task("", "", "vision", 0) }

\* req.body of POST /api/preflight/batch: the rejected bodies, one task in
\* either tier, and longer batches in the tier of the free models
BatchBodies ==
    { [boost_tier |-> "", tasks |-> List(<<Task("", "", "", 0)>>)],
      [boost_tier |-> "turbo", tasks |-> NotAList],
      [boost_tier |-> "turbo", tasks |-> List(<<>>)],
      [boost_tier |-> "turbo",
       tasks |-> List([i \in 1..(MAX_BATCH_TASKS + 1) |-> Task("", "", "", 0)])] }
    \cup { [boost_tier |-> b, tasks |-> List(<<t>>)] :
             b \in {"turbo", "ultra"}, t \in TaskChoices }
    \cup { [boost_tier |-> "turbo", tasks |-> List(s)] :
             s \in UNION { [1..n -> TaskChoices] : n \in 2..MaxTasks } }

InitPreflight ==
    /\ phase = "start"
    /\ db \in AccountDbs
    /\ puter \in { NoSdk, SignedIn(Num(5)) }
    /\ environment = AllKeys
    /\ upstream = PreflightReplies
    /\ outcome = NoResult
    /\ models = <<>> /\ req = NoReq /\ suggestions = <<>> /\ picked = Null
    /\ usability = NoResult /\ tierStatus = NoResult /\ accountStatus = NoResult
    /\ InferIdle /\ ExtractIdle /\ RateIdle /\ HealthIdle /\ RunIdle /\ StoreIdle

\* POST /preflight
PostPreflight ==
    /\ phase \in {"start", "running"}
    /\ \E body \in PreflightBodies :
        \E done \in {preflight(body, db, cache, history, overrides, puter, now)} :
           /\ runReq' = body
           /\ runRes' = [status |-> done.status, body |-> done.body]
           /\ cache' = done.cache
           /\ history' = done.history
           /\ overrides' = done.overrides
           /\ calls' = calls + done.requests
    /\ phase' = "preflight"
    /\ UNCHANGED <<now, lastOp, cacheBefore, waitTime, recorded, providerStatus, selVars,
                   inferVars, extractVars, acctVars, callVars, overridesFile, ratingRes,
                   dbCache, dbFile, loaded, inflight>>

\* POST /api/preflight/batch; after a batch the caller sends the same batch again
PostBatch ==
    /\ phase \in {"start", "running", "batch"}
    /\ \E body \in IF phase = "batch" THEN {runReq} ELSE BatchBodies :
        \E done \in {batchPreflight(body, db, cache, history, overrides, now)} :
           /\ runReq' = body
           /\ runRes' = [status |-> done.status, body |-> done.body]
           /\ cache' = done.cache
           /\ history' = done.history
           /\ overrides' = done.overrides
           /\ calls' = calls + done.requests
    /\ phase' = "batch"
    /\ UNCHANGED <<now, lastOp, cacheBefore, waitTime, recorded, providerStatus, selVars,
                   inferVars, extractVars, acctVars, callVars, overridesFile, ratingRes,
                   dbCache, dbFile, loaded, inflight>>

NextPreflight == CallProvider \/ PostPreflight \/ PostBatch

SpecPreflight == InitPreflight /\ [][NextPreflight]_vars
(***************************************************************************)
(* services/health: RatingsService                                         *)
(***************************************************************************)
RATING_FIELDS ==
    << "chat", "reasoning", "speed", "coding", "images", "audio_speech", "audio_music",
       "vision", "video" >>

\* String(value)
stringOf(v) ==
    CASE v.t = "string" -> v.s
      [] v.t = "number" -> ToString(v.n)
      [] v.t = "null" -> "null"
      [] OTHER -> "undefined"

\* body[key], undefined when the body has no such key
bodyField(body, key) == IF key \in DOMAIN body THEN body[key] ELSE Undef

\* { ...a, ...b }
spread(a, b) == [k \in (DOMAIN a) \cup (DOMAIN b) |-> IF k \in DOMAIN b THEN b[k] ELSE a[k]]

\* the ratings store: no file, a file holding the JSON text of an overrides
\* map, or a file whose content does not parse
NoFile == [kind |-> "absent"]
Truncated == [kind |-> "corrupt"]

\* JSON.overridesJson(overrides, null, 2): the text, as the members it spells out
overridesJson(o) == [kind |-> "json", members |-> [id \in DOMAIN o |-> o[id]]]

\* loadOverrides(): what the constructor leaves in memory for a given store
loadOverrides(file) == IF file.kind = "json" THEN file.members ELSE <<>>

\* fs.writeFileSync(path, text): write is "ok", "refused" (the call throws and
\* the file is as before) or "cut" (the call throws after truncating the file)
writeFileSync(file, text, write) ==
    CASE write = "ok" -> [threw |-> FALSE, file |-> text]
      [] write = "refused" -> [threw |-> TRUE, file |-> file]
      [] OTHER -> [threw |-> TRUE, file |-> Truncated]

E_write == "EACCES: permission denied, open 'ratings-overrides.json'"

\* the loop of validateRatingUpdates over RATING_FIELDS n.., with the updates
\* gathered so far
RECURSIVE validateFrom(_, _, _)
validateFrom(body, n, updates) ==
    IF n > Len(RATING_FIELDS)
    THEN LET withNotes == IF bodyField(body, "notes") # Undef
                          THEN spread(updates, "notes" :> Str(stringOf(body.notes)))
                          ELSE updates
         IN IF DOMAIN withNotes = {}
            THEN [ valid |-> FALSE, updates |-> <<>>, error |-> "No valid updates provided",
                   field |-> Undef, value |-> Undef ]
            ELSE [ valid |-> TRUE, updates |-> withNotes, error |-> "",
                   field |-> Undef, value |-> Undef ]
    ELSE LET ratingKey == RATING_FIELDS[n] \o "_rating" IN
         IF bodyField(body, ratingKey) = Undef
         THEN validateFrom(body, n + 1, updates)
         ELSE LET value == parseInt(stringOf(body[ratingKey])) IN
              IF value.t = "NaN" \/ value.n < 0 \/ value.n > 5
              THEN [ valid |-> FALSE, updates |-> <<>>,
                     error |-> "Invalid rating value for " \o ratingKey
                               \o ". Must be integer 0-5.",
                     field |-> Str(ratingKey), value |-> body[ratingKey] ]
              ELSE validateFrom(body, n + 1, spread(updates, RATING_FIELDS[n] :> value))

\* validateRatingUpdates(body)
validateRatingUpdates(body) == validateFrom(body, 1, <<>>)

\* this.overrides[modelId] = { ...this.overrides[modelId], ...updates, updated_at }
mergeOverride(o, modelId, updates, t) ==
    [ id \in (DOMAIN o) \cup {modelId} |->
        IF id = modelId
        THEN spread(spread(IF modelId \in DOMAIN o THEN o[modelId] ELSE <<>>, updates),
                    "updated_at" :> Str(toISOString(t)))
        ELSE o[id] ]

\* updateModelRating(modelId, updates): the assignment, then saveOverrides()
updateModelRating(o, file, modelId, updates, write, t) ==
    LET merged == mergeOverride(o, modelId, updates, t)
        saved  == writeFileSync(file, overridesJson(merged), write)
    IN [ threw |-> saved.threw, overrides |-> merged, file |-> saved.file ]

(***************************************************************************)
(* routes/models: PATCH /api/models/:model_id/rating                       *)
(***************************************************************************)
\* the handler for params.model_id = modelId and req.body = body, given the
\* database d, the overrides o in memory and the store file; write says how
\* the store takes a write
patchRating(modelId, body, d, o, file, write, t) ==
    LET kept == [ status |-> 200, body |-> <<>>, overrides |-> o, file |-> file ] IN
    IF ~findById(buildModelList(d), modelId).found
    THEN [ kept EXCEPT !.status = 404,
             !.body = [ error |-> "Model not found", model_id |-> modelId ] ]
    ELSE Only({ IF ~validation.valid
                THEN [ kept EXCEPT !.status = 400,
                         !.body = [ error |-> validation.error, field |-> validation.field,
                                    value |-> validation.value ] ]
                ELSE Only({ IF updated.threw
                            THEN [ status |-> 500, body |-> [ error |-> E_write ],
                                   overrides |-> updated.overrides, file |-> updated.file ]
                            ELSE [ status |-> 200,
                                   body |-> [ success |-> TRUE, model_id |-> modelId,
                                              updates |-> validation.updates,
                                              persisted |-> TRUE,
                                              timestamp |-> toISOString(t) ],
                                   overrides |-> updated.overrides, file |-> updated.file ] :
                            updated \in { updateModelRating(o, file, modelId,
                                                            validation.updates, write, t) } }) :
                validation \in { validateRatingUpdates(body) } })

\* transformModelForPinokio: overrides.<field> ?? model.ratings?.<field> ?? null
pinokioRating(o, model, field) ==
    IF model.id \in DOMAIN o /\ field \in DOMAIN o[model.id] THEN o[model.id][field]
    ELSE IF field \in DOMAIN model.ratings THEN Num(model.ratings[field])
    ELSE NullV

(***************************************************************************)
(* Rating updates followed by a catalog request (SpecRatings)              *)
(***************************************************************************)
\* gpt-4 rated below llama-3 for chat by the catalog overlay
RatingsDb ==
    [ model_registry |->
          << [key |-> "meta", buckets |-> [b \in {"groq"} |-> List(<<"gpt-4", "llama-3">>)]] >>,
      model_details |->
          [ id \in {"gpt-4", "llama-3"} |->
              Detail(FALSE, {}, "", "", TRUE,
                     [k \in {"chat", "speed"} |-> IF id = "llama-3" /\ k = "chat" THEN 3 ELSE 1],
                     "", FALSE) ],
      free_models |-> <<>> ]

\* req.body of the PATCH
RatingBodies ==
    { <<>>,
      "chat_rating" :> Num(5),
      "chat_rating" :> Num(6),
      "chat_rating" :> Num(0 - 1),
      "chat_rating" :> Str("abc"),
      ("chat_rating" :> Num(0)) @@ ("speed_rating" :> Str("4")) @@ ("notes" :> Str("fast")) }

WriteOutcomes == {"ok", "refused", "cut"}

InitRatings ==
    /\ phase = "start"
    /\ db = RatingsDb
    /\ models = <<>> /\ req = NoReq /\ suggestions = <<>> /\ picked = Null
    /\ overridesFile \in { NoFile, overridesJson("llama-3" :> ("chat" :> Num(2))) }
    /\ overrides = loadOverrides(overridesFile)
    /\ ratingRes = NoResult
    /\ dbCache = NoResult /\ dbFile = NoResult /\ loaded = NoResult /\ inflight = {}
    /\ InferIdle /\ ExtractIdle /\ RateIdle
    /\ AccountIdle /\ HealthIdle /\ DispatchIdle /\ RunIdle

\* PATCH /api/models/:model_id/rating
PatchRating ==
    /\ phase \in {"start", "rated"}
    /\ \E modelId \in {"gpt-4", "no-such-model"}, body \in RatingBodies, write \in WriteOutcomes :
        \E done \in {patchRating(modelId, body, db, overrides, overridesFile, write, now)} :
           /\ overrides' = done.overrides
           /\ overridesFile' = done.file
           /\ ratingRes' = [ model_id |-> modelId, body |-> body, status |-> done.status,
                             response |-> done.body, write |-> write,
                             overridesBefore |-> overrides, fileBefore |-> overridesFile ]
    /\ phase' = "rated"
    /\ UNCHANGED <<selVars, inferVars, extractVars, rateVars, acctVars, healthVars, callVars,
                   runVars, dbCache, dbFile, loaded, inflight>>

NextRatings == PatchRating \/ BuildModelList \/ SuggestModels \/ PickModel

SpecRatings == InitRatings /\ [][NextRatings]_vars
(***************************************************************************)
(* services/database: DatabaseService                                      *)
(***************************************************************************)
cacheMaxAge == 60000

\* the store: a file holding the JSON text of a database, a file whose text
\* does not parse (a write in progress, a damaged file), or no file
JsonFile(d) == [kind |-> "json", value |-> d]
DamagedFile == [kind |-> "corrupt"]
MissingFile == [kind |-> "absent"]

\* JSON.parse(fs.readFileSync(this.dbPath, 'utf8'))
readAndParse(file) ==
    CASE file.kind = "json" -> Return(file.value)
      [] file.kind = "corrupt" -> Throw("SyntaxError: Unexpected end of JSON input")
      [] OTHER -> Throw("ENOENT: no such file or directory")

\* private cachedDb: Database | null = null; private lastLoadTime = 0
EmptyCache == [cachedDb |-> NullV, lastLoadTime |-> 0]

\* a loadDb that still trusts a snapshot that is exactly cacheMaxAge old
loadDbInclusiveAge(svc, file, t) ==
    IF svc.cachedDb # NullV /\ t - svc.lastLoadTime <= cacheMaxAge
    THEN [ threw |-> FALSE, value |-> svc.cachedDb, read |-> FALSE, service |-> svc ]
    ELSE LET parsed == readAndParse(file) IN
         IF parsed.threw
         THEN [ threw |-> TRUE, value |-> parsed.error, read |-> TRUE, service |-> svc ]
         ELSE [ threw |-> FALSE, value |-> parsed.value, read |-> TRUE,
                service |-> [cachedDb |-> parsed.value, lastLoadTime |-> t] ]

\* loadDb() at time t, for the service fields svc and the store as it is:
\* what it returns or throws, whether it read the store, and the fields after
loadDb(svc, file, t) ==
    IF svc.cachedDb # NullV /\ t - svc.lastLoadTime < cacheMaxAge
    THEN [ threw |-> FALSE, value |-> svc.cachedDb, read |-> FALSE, service |-> svc ]
    ELSE LET parsed == readAndParse(file) IN
         IF parsed.threw
         THEN [ threw |-> TRUE, value |-> parsed.error, read |-> TRUE, service |-> svc ]
         ELSE [ threw |-> FALSE, value |-> parsed.value, read |-> TRUE,
                service |-> [cachedDb |-> parsed.value, lastLoadTime |-> t] ]

\* reloadDb(): the cache is emptied, then loadDb()
reloadDb(svc, file, t) == loadDb(EmptyCache, file, t)

(***************************************************************************)
(* Request handlers loading the database while the store changes           *)
(* (SpecDatabase)                                                          *)
(***************************************************************************)
\* the databases the store holds over a run
StoredDbs == { DispatchDb, UsableDb }

StoreContents == { JsonFile(d) : d \in StoredDbs } \cup { DamagedFile, MissingFile }

\* the instants at which something happens, around one and two cache ages
DbInstants ==
    { 0, 1, cacheMaxAge - 1, cacheMaxAge, cacheMaxAge + 1, 2 * cacheMaxAge - 1,
      2 * cacheMaxAge, 2 * cacheMaxAge + 1 }

InitDatabase ==
    /\ phase = "start"
    /\ dbCache = EmptyCache
    /\ dbFile \in StoreContents
    /\ loaded = NoResult
    /\ overrides = <<>> /\ overridesFile = <<>> /\ ratingRes = NoResult /\ inflight = {}
    /\ SelIdle /\ InferIdle /\ ExtractIdle /\ RateIdle
    /\ AccountIdle /\ HealthIdle /\ DispatchIdle /\ RunIdle

\* what a call leaves behind: the result, and what the call found
Loaded(op, done) ==
    [ op |-> op, threw |-> done.threw, value |-> done.value, read |-> done.read,
      serviceBefore |-> dbCache, file |-> dbFile, at |-> now ]

\* a request handler calls databaseService.loadDb()
LoadDb ==
    /\ \E done \in {loadDb(dbCache, dbFile, now)} :
        /\ dbCache' = done.service
        /\ loaded' = Loaded("loadDb", done)
        /\ db' = IF done.threw THEN db ELSE done.value
    /\ phase' = "loaded"
    /\ UNCHANGED <<models, req, suggestions, picked, inferVars, extractVars, rateVars,
                   acctVars, healthVars, callVars, runVars, overrides, overridesFile,
                   ratingRes, dbFile, inflight>>

\* a request handler calls databaseService.reloadDb()
ReloadDb ==
    /\ \E done \in {reloadDb(dbCache, dbFile, now)} :
        /\ dbCache' = done.service
        /\ loaded' = Loaded("reloadDb", done)
        /\ db' = IF done.threw THEN db ELSE done.value
    /\ phase' = "loaded"
    /\ UNCHANGED <<models, req, suggestions, picked, inferVars, extractVars, rateVars,
                   acctVars, healthVars, callVars, runVars, overrides, overridesFile,
                   ratingRes, dbFile, inflight>>

\* the store is rewritten, damaged or removed from outside the process
ChangeStore ==
    /\ \E file \in StoreContents \ {dbFile} : dbFile' = file
    /\ phase' = "stored"
    /\ UNCHANGED <<selVars, inferVars, extractVars, rateVars, acctVars, healthVars, callVars,
                   runVars, overrides, overridesFile, ratingRes, dbCache, loaded, inflight>>

\* time passes between two calls
Wait ==
    /\ \E t \in DbInstants : t > now /\ now' = t
    /\ phase' = "waited"
    /\ UNCHANGED <<cache, calls, lastOp, cacheBefore, waitTime, selVars, inferVars, extractVars,
                   acctVars, healthVars, callVars, runVars, storeVars>>

NextDatabase == LoadDb \/ ReloadDb \/ ChangeStore \/ Wait

SpecDatabase == InitDatabase /\ [][NextDatabase]_vars
(***************************************************************************)
(* Provider calls in flight at the same time (SpecRace)                    *)
(***************************************************************************)
\* successes with different quota headers, and a refusal
RaceReplies ==
    { Reply(200, "", OpenAIShape(Str("hi")),
            ("x-ratelimit-remaining-requests" :> "5") @@ ("x-ratelimit-limit-requests" :> "60")),
      Reply(200, "", OpenAIShape(Str("hi")), "x-ratelimit-remaining-tokens" :> "0"),
      Reply(200, "", OpenAIShape(Str("hi")), <<>>),
      Reply(429, "Too Many Requests", Undef, <<>>) }

\* nothing processed yet
NoneProcessed == [op |-> "none", processed |-> <<>>]

InitRace ==
    /\ phase = "start"
    /\ db \in { d \in RunDbs : d.free_models # <<>> }
    /\ puter = NoSdk
    /\ environment = AllKeys
    /\ upstream = RaceReplies
    /\ outcome = NoResult
    /\ models = <<>> /\ req = NoReq /\ suggestions = <<>> /\ picked = Null
    /\ usability = NoResult /\ tierStatus = NoResult /\ accountStatus = NoResult
    /\ cache = <<>> /\ now = 0 /\ calls = 0 /\ cacheBefore = <<>> /\ waitTime = Undef
    /\ lastOp = NoneProcessed
    /\ inflight = {}
    /\ overrides = <<>> /\ overridesFile = <<>> /\ ratingRes = NoResult
    /\ dbCache = NoResult /\ dbFile = NoResult /\ loaded = NoResult
    /\ InferIdle /\ ExtractIdle /\ HealthIdle /\ RunIdle

\* callProvider up to its await: getProvider finds the adapter, the adapter
\* finds its credential and sends the request
BeginCall ==
    /\ phase \in {"start", "running"}
    /\ calls < MaxCalls
    /\ \E model \in Range(buildModelList(db)) :
        LET route == IF model.route # "" THEN model.route ELSE model.provider
            found == getProvider(route, model.company)
        IN /\ ~found.threw
           /\ missingKey(found.value.envKeys, environment) = ""
           /\ inflight' = inflight \cup
                 { [n |-> calls + 1, model |-> model, route |-> route, start |-> now] }
    /\ calls' = calls + 1
    /\ phase' = "running"
    /\ UNCHANGED <<cache, now, lastOp, cacheBefore, waitTime, selVars, inferVars, extractVars,
                   acctVars, healthVars, callVars, runVars, overrides, overridesFile,
                   ratingRes, dbCache, dbFile, loaded>>

\* callProvider from its await on: the response of one request in flight
\* arrives and is processed to the end of the finally block
CompleteCall ==
    /\ phase = "running"
    /\ \E call \in inflight, reply \in upstream :
        \E done \in { settle([ outcome |->
                                  providerCall(getProvider(call.route, call.model.company).value,
                                               call.model, environment, puter, reply).outcome,
                               adapterCalls |-> 1, requests |-> 1 ],
                             call.model, call.route,
                             [reply EXCEPT !.latency = now - call.start],
                             cache, history, call.start) } :
           /\ cache' = done.cache
           /\ history' = done.history
           /\ recorded' =
                 [ k \in (DOMAIN recorded) \cup {call.route} |->
                     IF k = call.route
                     THEN Append(historyOf(recorded, k),
                                 healthRecord(call.model.id, ~done.threw, now - call.start,
                                              IF done.threw THEN Str(done.error.message)
                                              ELSE NullV,
                                              now))
                     ELSE recorded[k] ]
           /\ outcome' = [ model |-> call.model, reply |-> reply, route |-> call.route,
                           threw |-> done.threw, error |-> done.error, data |-> done.data,
                           adapterCalls |-> 1, requests |-> 1, historyBefore |-> history ]
           /\ lastOp' =
                 [ op |-> "complete", n |-> call.n,
                   provider |-> call.route, modelId |-> call.model.id,
                   processed |->
                       IF done.threw THEN lastOp.processed
                       ELSE (getCacheKey(call.route, call.model.id)
                                :> [n |-> call.n, headers |-> reply.headers, at |-> now])
                            @@ lastOp.processed ]
           /\ inflight' = inflight \ {call}
    /\ cacheBefore' = cache
    /\ UNCHANGED <<phase, now, calls, waitTime, environment, upstream, providerStatus, selVars,
                   inferVars, extractVars, acctVars, runVars, overrides, overridesFile,
                   ratingRes, dbCache, dbFile, loaded>>

NextRace == BeginCall \/ CompleteCall \/ Tick

SpecRace == InitRace /\ [][NextRace]_vars
(***************************************************************************)
(* Claims about the selector (SpecSelect)                                  *)
(***************************************************************************)
\* rank in local < remote_free < credit_backed < paid
TierRank(t) ==
    CASE t = "local" -> 0 [] t = "remote_free" -> 1
      [] t = "credit_backed" -> 2 [] t = "paid" -> 3 [] OTHER -> -1

ValidTiers == {"local", "remote_free", "credit_backed", "paid"}

RequestedCapability == IF req.capability # "" THEN req.capability ELSE "chat"

SpeedOf(m) == IF "speed" \in DOMAIN m.ratings THEN m.ratings["speed"] ELSE 0

OrderedPair(a, b) ==
    \/ TierRank(a.cost_tier) < TierRank(b.cost_tier)
    \/ /\ TierRank(a.cost_tier) = TierRank(b.cost_tier)
       /\ a.score > b.score
    \/ /\ TierRank(a.cost_tier) = TierRank(b.cost_tier)
       /\ a.score = b.score
       /\ SpeedOf(a) >= SpeedOf(b)

\* C1: the list returned by suggestModels is ordered by ascending cost-tier
\* rank, then descending score, then descending speed rating, where score is
\* the rating for the requested capability (default chat) or 0 when absent.
C1_SuggestOrdered ==
    phase = "suggested" =>
        /\ \A i \in 1..Len(suggestions) :
              suggestions[i].score =
                  IF RequestedCapability \in DOMAIN suggestions[i].ratings
                  THEN suggestions[i].ratings[RequestedCapability] ELSE 0
        /\ \A i, j \in 1..Len(suggestions) :
              i < j => OrderedPair(suggestions[i], suggestions[j])

\* a remote_free model with score 1 is listed before a paid model with score 5
C1_Witness ==
    /\ phase = "suggested"
    /\ \E i, j \in 1..Len(suggestions) :
          /\ i < j
          /\ suggestions[i].cost_tier = "remote_free" /\ suggestions[i].score = 1
          /\ suggestions[j].cost_tier = "paid" /\ suggestions[j].score = 5

WithoutScore(m) == [f \in (DOMAIN m) \ {"score"} |-> m[f]]

Count(seq, x) == Cardinality({ i \in 1..Len(seq) : seq[i] = x })

MatchesRequest(m) ==
    /\ (req.provider = "" \/ m.provider = req.provider)
    /\ (req.cost_tier = "" \/ m.cost_tier = req.cost_tier)
    /\ (req.capability = "" \/ (req.capability \in DOMAIN m.capabilities
                                 /\ m.capabilities[req.capability]))
    /\ \/ req.max_cost_tier = ""
       \/ /\ req.max_cost_tier \in ValidTiers
          /\ m.cost_tier \in ValidTiers
          /\ TierRank(m.cost_tier) <= TierRank(req.max_cost_tier)

\* C2: suggestModels returns exactly the catalog descriptors that match every
\* supplied constraint and lie under the cost ceiling (no ceiling when
\* max_cost_tier is absent): none dropped, none added, none duplicated.
C2_SuggestExactlyMatching ==
    phase = "suggested" =>
        \A k \in 1..Len(models) :
            Count([i \in 1..Len(suggestions) |-> WithoutScore(suggestions[i])], models[k])
              = IF MatchesRequest(models[k]) THEN Count(models, models[k]) ELSE 0

\* C3: pickModel with an explicit model_id returns a catalog descriptor with
\* exactly that id, unchanged and unscored, or none when the catalog has no
\* such id, whatever capability or max_cost_tier comes with it.
C3_PickExplicitId ==
    (phase = "picked" /\ req.model_id # "") =>
        IF \E i \in 1..Len(models) : models[i].id = req.model_id
        THEN /\ picked.found
             /\ picked.model.id = req.model_id
             /\ \E i \in 1..Len(models) : models[i] = picked.model
        ELSE ~picked.found

\* the explicit id is found although it lacks the capability and exceeds the ceiling
C3_Witness ==
    /\ phase = "picked"
    /\ req.model_id = "whisper-1" /\ req.capability = "chat" /\ req.max_cost_tier = "local"
    /\ picked.found
    /\ ~picked.model.capabilities["chat"]
    /\ picked.model.cost_tier = "paid"

(***************************************************************************)
(* Claims about catalog construction (SpecCatalog)                         *)
(***************************************************************************)
\* C4: every descriptor of a built catalog has cost_tier among the four tiers.
C4_CostTierEnumerated ==
    phase = "built" => \A i \in 1..Len(models) : models[i].cost_tier \in ValidTiers

\* C5: no two descriptors of a built catalog share an id.
C5_UniqueIds ==
    phase = "built" =>
        \A i, j \in 1..Len(models) : models[i].id = models[j].id => i = j

\* the (company, bucket, position) triples of the registry whose bucket holds a list
RegistryTriples ==
    { <<n, b, k>> \in (1..Len(db.model_registry)) \X RegistryBucketNames \X (1..2) :
        /\ b \in DOMAIN db.model_registry[n].buckets
        /\ db.model_registry[n].buckets[b].kind = "array"
        /\ k <= Len(db.model_registry[n].buckets[b].ids) }

\* C6: the catalog holds one descriptor per (company, bucket, modelId) triple
\* whose bucket holds a list, buckets outside the lookup table included.
C6_OneDescriptorPerTriple ==
    phase = "built" =>
        /\ Len(models) = Cardinality(RegistryTriples)
        /\ \A t \in RegistryTriples :
              \E i \in 1..Len(models) :
                  /\ models[i].company = db.model_registry[t[1]].key
                  /\ models[i].id = db.model_registry[t[1]].buckets[t[2]].ids[t[3]]

(***************************************************************************)
(* Claims about capability inference (SpecInfer)                           *)
(***************************************************************************)
\* marker occurs in id, letter case ignored
ContainsIgnoringCase(id, marker) ==
    \E i \in 1..Len(id) :
        /\ i + Len(marker) - 1 <= Len(id)
        /\ \A j \in 1..Len(marker) : lowerChar(id[i + j - 1]) = marker[j]

Speechy(id) == ContainsIgnoringCase(id, S_whisper)
Ttsy(id)    == ContainsIgnoringCase(id, S_tts) \/ ContainsIgnoringCase(id, S_playai)
Imagey(id)  == \/ ContainsIgnoringCase(id, S_img) \/ ContainsIgnoringCase(id, S_vision)
               \/ ContainsIgnoringCase(id, S_image)
Videoy(id)  == ContainsIgnoringCase(id, S_video) \/ ContainsIgnoringCase(id, S_sora)

TrueFlags(caps) == { k \in DOMAIN caps : caps[k] }

\* C7: inferCapabilities is case-insensitive and first-match-wins in the order
\* whisper, tts/playai, img/vision/image, video/sora, default: "whisper" always
\* gives audio_speech and never chat; no marker gives chat, reasoning, speed, coding.
C7_InferFirstMatchWins ==
    phase = "inferred" =>
        /\ DOMAIN inferCaps = CapabilityKeySet
        /\ Speechy(inferId) => (inferCaps["audio_speech"] /\ ~inferCaps["chat"])
        /\ (~Speechy(inferId) /\ Ttsy(inferId)) =>
              TrueFlags(inferCaps) = {"audio_speech", "speed"}
        /\ (~Speechy(inferId) /\ ~Ttsy(inferId) /\ Imagey(inferId)) =>
              TrueFlags(inferCaps) = {"vision", "images"}
        /\ (~Speechy(inferId) /\ ~Ttsy(inferId) /\ ~Imagey(inferId) /\ Videoy(inferId)) =>
              TrueFlags(inferCaps) = {"video"}
        /\ (~Speechy(inferId) /\ ~Ttsy(inferId) /\ ~Imagey(inferId) /\ ~Videoy(inferId)) =>
              TrueFlags(inferCaps) = {"chat", "reasoning", "speed", "coding"}

\* an id in mixed case that holds "whisper" and a later marker
C7_Witness ==
    /\ phase = "inferred"
    /\ inferId # toLowerCase(inferId)
    /\ Speechy(inferId) /\ Imagey(inferId)
    /\ inferCaps["audio_speech"] /\ ~inferCaps["vision"]

(***************************************************************************)
(* Claims about the response normaliser (SpecExtract)                      *)
(***************************************************************************)
\* the six recognised shapes, in priority order; "0" is the first array element
ContentPaths ==
    << <<"choices", "0", "message", "content">>,
       <<"content", "0", "text">>,
       <<"candidates", "0", "content", "parts", "0", "text">>,
       <<"message", "content", "0", "text">>,
       <<"result", "response">>,
       <<"generated_text">> >>

RECURSIVE ValueAt(_, _)
ValueAt(v, path) ==
    IF path = <<>> THEN v
    ELSE IF Head(path) = "0"
         THEN IF v.t = "array" /\ Len(v.items) > 0 THEN ValueAt(v.items[1], Tail(path)) ELSE Undef
         ELSE IF v.t = "object" THEN ValueAt(getProp(v, Head(path)), Tail(path)) ELSE Undef

HasText(v, n) == ValueAt(v, ContentPaths[n]).t = "string"

\* the text of the first recognised shape, or the stringified response
NormalisedContent(v) ==
    IF \E n \in 1..Len(ContentPaths) : HasText(v, n)
    THEN ValueAt(v, ContentPaths[CHOOSE n \in 1..Len(ContentPaths) :
                        HasText(v, n) /\ \A k \in 1..(n - 1) : ~HasText(v, k)]).s
    ELSE stringify(v)

\* C8: extractContent never throws and returns a string for any raw response:
\* the text of a recognised shape, and the stringified response for every
\* other value (unrecognised, null, or a container whose first element is
\* null or lacks the expected fields).
C8_ExtractAlwaysString ==
    phase = "extracted" =>
        /\ ~extracted.threw
        /\ extracted.value = NormalisedContent(response)

(***************************************************************************)
(* Claims about the rate-limit cache (SpecRate)                            *)
(***************************************************************************)
\* header values that are integers, with the integer each denotes
IntegerHeaderValue(str) ==
    CASE str = "0" -> 0 [] str = "5" -> 5 [] str = "12" -> 12
      [] str = "60" -> 60 [] str = "-1" -> 0 - 1

IntegerHeaderValues == {"0", "5", "12", "60", "-1"}

\* headers h carry, under name, a value that is <= 0
CarriesAtMostZero(h, name) ==
    /\ name \in DOMAIN h
    /\ h[name] \in IntegerHeaderValues
    /\ IntegerHeaderValue(h[name]) <= 0

\* C9: after updateFromHeaders(p, m, h), isRateLimited(p, m) is true iff h
\* carries a remaining-requests or remaining-tokens value <= 0, and get and
\* isRateLimited of every other (provider, model) pair are as before.
C9_UpdateRoundTrip ==
    lastOp.op = "update" =>
        /\ isRateLimited(cache, lastOp.provider, lastOp.modelId)
             <=> \/ CarriesAtMostZero(lastOp.headers, "x-ratelimit-remaining-requests")
                 \/ CarriesAtMostZero(lastOp.headers, "x-ratelimit-remaining-tokens")
        /\ \A pm \in RateTargets \ { <<lastOp.provider, lastOp.modelId>> } :
              /\ get(cache, pm[1], pm[2]) = get(cacheBefore, pm[1], pm[2])
              /\ isRateLimited(cache, pm[1], pm[2]) = isRateLimited(cacheBefore, pm[1], pm[2])

\* an update exhausts one model while another model of the same provider,
\* cached earlier as not exhausted, keeps its entry
C9_Witness ==
    /\ lastOp.op = "update"
    /\ isRateLimited(cache, lastOp.provider, lastOp.modelId)
    /\ \E pm \in RateTargets :
          /\ pm[1] = lastOp.provider /\ pm[2] # lastOp.modelId
          /\ get(cacheBefore, pm[1], pm[2]) # NullV
          /\ get(cache, pm[1], pm[2]) = get(cacheBefore, pm[1], pm[2])
          /\ ~isRateLimited(cache, pm[1], pm[2])

\* C10: getWaitTime always returns an integer number of seconds >= 0, and 60
\* when no entry or no reset time is cached, for every reset-time string.
C10_WaitTimeIsSeconds ==
    phase = "waited" =>
        /\ waitTime.t = "number"
        /\ waitTime.n >= 0
        /\ (get(cache, lastOp.provider, lastOp.modelId) = NullV
            \/ get(cache, lastOp.provider, lastOp.modelId).reset_time = NullV)
              => waitTime.n = 60

(***************************************************************************)
(* Claims about model usability (SpecUsable)                               *)
(***************************************************************************)
\* the SDK answers the credit lookup: a user is signed in and getUser resolves
LookupAnswers ==
    /\ puter.sdk = "auth" /\ puter.isSignedIn = "true" /\ puter.getUser = "resolves"

\* the balance the lookup then reports: user.credits, 0 when it is missing
ReportedBalance == IF puter.credits.t = "number" THEN puter.credits.n ELSE 0

CannotVerifyReasons ==
    { "Cannot verify Puter credits: " \o e : e \in {E_noSdk, E_noUser, "Failed to fetch"} }

\* the cache entry stored for exactly (provider, id) shows an exhausted quota
EntryExhausted(c, provider, id) ==
    LET key == provider \o ":" \o id IN
    /\ key \in DOMAIN c
    /\ \/ c[key].requests_remaining.t = "number" /\ c[key].requests_remaining.n <= 0
       \/ c[key].tokens_remaining.t = "number" /\ c[key].tokens_remaining.n <= 0

\* C11: for a descriptor flagged uses_puter_credits or of tier credit_backed,
\* isModelUsable returns usable=true iff the credit lookup reports
\* available=true and balance > 0, whatever the rate-limit cache holds; when
\* the lookup throws or reports unavailable the result is usable=false with a
\* cannot-verify reason, and the call returns a result rather than raising.
C11_CreditModelsFollowBalance ==
    (phase = "usability"
     /\ (usability.model.uses_puter_credits \/ usability.model.cost_tier = "credit_backed"))
    => /\ "usable" \in DOMAIN usability.result
       /\ usability.result.usable <=> (LookupAnswers /\ ReportedBalance > 0)
       /\ ~LookupAnswers => /\ ~usability.result.usable
                            /\ usability.result.reason \in CannotVerifyReasons

\* a credit model found usable although the cache holds an exhausted entry for it
C11_Witness ==
    /\ phase = "usability"
    /\ usability.model.uses_puter_credits \/ usability.model.cost_tier = "credit_backed"
    /\ usability.result.usable
    /\ EntryExhausted(cache, usability.model.provider, usability.model.id)

\* C12: for a descriptor that neither is flagged uses_puter_credits nor has
\* tier credit_backed, isModelUsable returns usable=false iff the cache entry
\* of exactly that (provider, model id) has remaining-requests or
\* remaining-tokens present and <= 0; with no entry it returns usable=true,
\* and the credit lookup is not consulted.
C12_FreeModelsFollowCache ==
    (phase = "usability"
     /\ ~(usability.model.uses_puter_credits \/ usability.model.cost_tier = "credit_backed"))
    => /\ ~usability.result.usable
            <=> EntryExhausted(cache, usability.model.provider, usability.model.id)
       /\ (usability.model.provider \o ":" \o usability.model.id) \notin DOMAIN cache
            => usability.result.usable
       /\ usability.lookups = 0

\* a free model found unusable through its cached token quota while the same
\* id under another provider is cached with quota left
C12_Witness ==
    /\ phase = "usability"
    /\ ~(usability.model.uses_puter_credits \/ usability.model.cost_tier = "credit_backed")
    /\ ~usability.result.usable
    /\ cache[usability.model.provider \o ":" \o usability.model.id].tokens_remaining.t = "number"
    /\ \E k \in DOMAIN cache :
          /\ k # usability.model.provider \o ":" \o usability.model.id
          /\ cache[k].requests_remaining.t = "number"
          /\ cache[k].requests_remaining.n > 0

(***************************************************************************)
(* Claims about tier and account exhaustion (SpecAccount)                  *)
(***************************************************************************)
\* the catalog descriptors of a cost tier
TierDescriptors(costTier) ==
    { m \in Range(buildModelList(db)) : m.cost_tier = costTier }

\* the cost tier a boost tier stands for
MappedTier(boostTier) == IF boostTier = "turbo" THEN "remote_free" ELSE "credit_backed"

\* no descriptor of the tier is individually usable, given cache c
NoneUsable(boostTier, c) ==
    \A m \in TierDescriptors(MappedTier(boostTier)) : ~isModelUsable(m, c, puter).usable

\* C13: checkBoostTierExhaustion(tier) reports exhausted=true iff no catalog
\* descriptor of the tier's mapped cost_tier is individually usable; a tier
\* with zero models is exhausted and carries its own reason; and once a model
\* of a tier whose models were all unusable becomes usable, the next check
\* reports exhausted=false.
C13_TierExhaustedIffNoneUsable ==
    (phase = "tier" /\ tierStatus.boost_tier \in {"turbo", "ultra"})
    => /\ tierStatus.exhausted <=> NoneUsable(tierStatus.boost_tier, cache)
       /\ TierDescriptors(MappedTier(tierStatus.boost_tier)) = {}
            => /\ tierStatus.exhausted
               /\ tierStatus.reason = "No models available for this boost tier"
               /\ "message" \notin DOMAIN tierStatus
       /\ TierDescriptors(MappedTier(tierStatus.boost_tier)) # {}
            => "reason" \notin DOMAIN tierStatus
       /\ (NoneUsable(tierStatus.boost_tier, cacheBefore)
           /\ ~NoneUsable(tierStatus.boost_tier, cache))
            => ~tierStatus.exhausted

\* every model of the tier was unusable before the last provider call, that
\* call cleared the cached exhaustion of one of them while another stays
\* unusable, and the check reports the tier as not exhausted
C13_Witness ==
    /\ phase = "tier"
    /\ tierStatus.boost_tier = "turbo"
    /\ tierStatus.total_models >= 2
    /\ NoneUsable("turbo", cacheBefore)
    /\ ~tierStatus.exhausted
    /\ tierStatus.unusable_models >= 1

\* C14: account_exhausted of GET /account/status is true iff
\* checkBoostTierExhaustion reports exhausted for both the turbo and the
\* ultra tier, whichever tier was requested.
C14_AccountExhaustedIffBoth ==
    phase = "status"
    => accountStatus.body.account_exhausted
         <=> /\ checkBoostTierExhaustion("turbo", db, cache, puter).exhausted
             /\ checkBoostTierExhaustion("ultra", db, cache, puter).exhausted

(***************************************************************************)
(* Claims about the health tracker (SpecHealth)                            *)
(***************************************************************************)
\* the last n elements of a sequence, all of it when it is shorter
LastN(s, n) == IF Len(s) <= n THEN s ELSE SubSeq(s, Len(s) - n + 1, Len(s))

\* C15: each provider's history is the at most 100 most recent calls recorded
\* for it, in the order they were recorded, and recording a call for one
\* provider leaves every other provider's history as it was.
C15_HistoryKeepsLatestHundred ==
    /\ DOMAIN history = DOMAIN recorded
    /\ \A p \in DOMAIN recorded :
        /\ Len(history[p]) <= 100
        /\ history[p] = LastN(recorded[p], 100)
    /\ lastOp.op = "record" =>
        \A p \in (DOMAIN history) \cup (DOMAIN lastOp.before) :
            p # lastOp.provider => historyOf(history, p) = historyOf(lastOp.before, p)

\* a call was recorded for groq after its 100th, with another provider's
\* history present
C15_Witness ==
    /\ lastOp.op = "record" /\ lastOp.provider = "groq"
    /\ Len(historyOf(recorded, "groq")) > 100
    /\ Len(historyOf(history, "openrouter")) > 0

(***************************************************************************)
(* Claims about provider calls (SpecDispatch)                              *)
(***************************************************************************)
\* the adapter that serves the last call, "" when the route has none
ServingAdapter ==
    IF outcome.route = "direct"
    THEN (IF outcome.model.company \in {"openai", "anthropic"}
          THEN outcome.model.company ELSE "")
    ELSE IF outcome.route \in {"groq", "cloudflare", "puter"} THEN outcome.route ELSE ""

\* the environment values the serving adapter needs
RequiredKeys ==
    CASE ServingAdapter = "groq" -> {"GROQ_API_KEY"}
      [] ServingAdapter = "openai" -> {"OPENAI_API_KEY"}
      [] ServingAdapter = "cloudflare" -> {"CLOUDFLARE_API_KEY", "CLOUDFLARE_ACCOUNT_ID"}
      [] OTHER -> {}

\* the last call could not succeed: no adapter, no SDK, no credential, no
\* answer, or an answer with a non-2xx status
CallFails ==
    \/ ServingAdapter = ""
    \/ ServingAdapter = "puter" /\ puter # SignedIn(Num(5))
    \/ ~(RequiredKeys \subseteq environment)
    \/ outcome.reply # NoResult /\ (outcome.reply.failed \/ outcome.reply.status \notin 200..299)

\* C16: every completed callProvider appends exactly one health record for
\* the call, with the call's model id and a success flag that matches the
\* outcome; every failure is thrown to the caller, and no call reaches an
\* adapter or the network twice.
C16_OneRecordPerCall ==
    outcome # NoResult =>
        LET before == historyOf(outcome.historyBefore, outcome.route)
            after  == historyOf(history, outcome.route)
        IN /\ Len(after) = Len(before) + 1
           /\ SubSeq(after, 1, Len(before)) = before
           /\ after[Len(after)].model_id = outcome.model.id
           /\ after[Len(after)].success = ~outcome.threw
           /\ \A k \in (DOMAIN history) \ {outcome.route} :
                k \in DOMAIN outcome.historyBefore /\ history[k] = outcome.historyBefore[k]
           /\ outcome.threw <=> CallFails
           /\ outcome.threw =>
                /\ outcome.error # Undef
                /\ after[Len(after)].error_message = Str(outcome.error.message)
           /\ outcome.adapterCalls <= 1 /\ outcome.requests <= 1

\* a call failed on a non-2xx answer after an earlier call on the same route
\* had succeeded
C16_Witness ==
    /\ outcome # NoResult /\ outcome.threw
    /\ outcome.reply # NoResult /\ outcome.reply.status = 500
    /\ Len(historyOf(history, outcome.route)) = 2
    /\ history[outcome.route][1].success
    /\ ~history[outcome.route][2].success

\* C19: an adapter call answered with a non-success HTTP status throws a typed
\* error carrying the provider name, the model id, the status and the raw
\* body, for every status and body; a call whose credential is absent throws
\* a configuration error before any HTTP request is sent.
C19_HttpErrorsCarryContext ==
    outcome # NoResult =>
        /\ (outcome.reply # NoResult /\ ~outcome.reply.failed
            /\ outcome.reply.status \notin 200..299) =>
                /\ outcome.threw
                /\ outcome.error.class \in {"ProviderError", "RateLimitError"}
                /\ outcome.error.provider = Str(ServingAdapter)
                /\ outcome.error.modelId = Str(outcome.model.id)
                /\ includes(outcome.error.message, Chars(ToString(outcome.reply.status)))
                /\ includes(outcome.error.message, Chars(outcome.reply.text))
        /\ (ServingAdapter \notin {"", "puter"} /\ ~(RequiredKeys \subseteq environment)) =>
                /\ outcome.threw
                /\ outcome.error.class = "ConfigurationError"
                /\ outcome.requests = 0

\* the provider's recorded calls of the last hour, as of the status request
LastHour(p) ==
    SelectSeq(historyOf(history, p),
              LAMBDA r : dateGetTime(r.timestamp).n > now - 3600000)

\* the provider's last success is more than 15 minutes old and at least 6
\* calls are recorded for it
StaleSuccess(p) ==
    LET records == historyOf(history, p) IN
    /\ Len(records) >= 6
    /\ \E i \in 1..Len(records) :
        /\ records[i].success
        /\ \A j \in (i+1)..Len(records) : ~records[j].success
        /\ dateGetTime(records[i].timestamp).n < now - 900000

\* the successful calls of the last hour that carry a latency
Timed(p) == SelectSeq(LastHour(p), LAMBDA r : r.success /\ r.latency_ms > 0)

\* the status the thresholds give: below(sum, n, limit) says whether the
\* average sum / n counts as under the limit
ByThresholds(p, below(_, _, _)) ==
    LET recent == LastHour(p)
        ok == Len(SelectSeq(recent, LAMBDA r : r.success))
        sum == sumLatency(Timed(p))
        n == Len(Timed(p))
    IN IF Len(recent) = 0 THEN "unknown"
       ELSE IF 100 * ok >= 95 * Len(recent) /\ (n = 0 \/ below(sum, n, 2000)) THEN "healthy"
       ELSE IF 100 * ok >= 50 * Len(recent) /\ (n = 0 \/ below(sum, n, 5000)) THEN "degraded"
       ELSE "down"

\* sum / n < limit
ExactlyBelow(sum, n, limit) == sum < limit * n

\* sum / n rounded to the nearest whole millisecond, halves upwards, is < limit,
\* which is sum / n < limit - 1/2
RoundedBelow(sum, n, limit) == 2 * sum < (2 * limit - 1) * n

\* C17: without the stale-success override the status is unknown iff no call
\* lies in the last hour, else healthy iff the success rate is >= 0.95 and the
\* average latency of the successful calls is under 2000 ms or absent, else
\* degraded iff the rate is >= 0.5 and the average is under 5000 ms or
\* absent, else down.  The statement as written, on the exact average:
C17_StatusFollowsRateAndAverage ==
    (providerStatus # NoResult /\ ~StaleSuccess(providerStatus.provider)) =>
        providerStatus.status = ByThresholds(providerStatus.provider, ExactlyBelow)

\* C17, amended: the same with the average rounded to the nearest whole
\* millisecond before it is compared, which is also the latency reported.
C17_StatusFollowsRateAndRoundedAverage ==
    (providerStatus # NoResult /\ ~StaleSuccess(providerStatus.provider)) =>
        LET p == providerStatus.provider IN
        /\ providerStatus.status = ByThresholds(p, RoundedBelow)
        /\ Len(Timed(p)) = 0 <=> providerStatus.latency_ms = NullV
        /\ (providerStatus.success_rate_last_hour # NullV
            /\ providerStatus.success_rate_last_hour.num = 10
            /\ providerStatus.success_rate_last_hour.den = 20
            /\ providerStatus.latency_ms # NullV
            /\ providerStatus.latency_ms.n < 5000) => providerStatus.status = "degraded"

\* two successes of 1999 ms and 2000 ms, average 1999.5 ms, reported as
\* 2000 ms and degraded
C17_Witness ==
    /\ providerStatus # NoResult
    /\ ~StaleSuccess(providerStatus.provider)
    /\ providerStatus.success_rate_last_hour = [num |-> 2, den |-> 2]
    /\ sumLatency(Timed(providerStatus.provider)) = 3999
    /\ providerStatus.latency_ms = Num(2000)
    /\ providerStatus.status = "degraded"

\* C18: the status is down whenever the provider's last successful call is
\* more than 15 minutes old and at least 6 calls are recorded for it, however
\* those calls are spread in time.
C18_StaleSuccessForcesDown ==
    (providerStatus # NoResult /\ StaleSuccess(providerStatus.provider)) =>
        providerStatus.status = "down"

(***************************************************************************)
(* Claims about POST /run (SpecRun)                                        *)
(***************************************************************************)
\* the provider call of the request failed with a rate-limit error
RateLimitedRun ==
    /\ runRes # NoResult /\ outcome # NoResult /\ outcome.threw
    /\ runRes.status = 429

\* the capability the request asks for
RunCapability == IF runReq.capability # "" THEN runReq.capability ELSE "chat"

\* the catalog's models with the requested capability that differ from the
\* failed model in id and in provider
OtherProviderModels ==
    { m \in Range(buildModelList(db)) :
        /\ m.id # outcome.model.id
        /\ m.provider # outcome.model.provider
        /\ RunCapability \in DOMAIN m.capabilities
        /\ m.capabilities[RunCapability] }

\* the response's suggestion names the model m
Suggests(m) ==
    /\ runRes.body.suggestion # NullV
    /\ runRes.body.suggestion.next_best_model = m.id
    /\ runRes.body.suggestion.next_best_provider = m.provider

\* C20: when the provider call of a /run request fails with a rate-limit error
\* and the catalog holds another model with the requested capability from a
\* different provider, the error payload suggests such a model, whether the
\* failed model was given by id or selected automatically; and a suggested
\* model differs from the failed one in id and provider and has the capability.
C20_RateLimitSuggestsOtherProvider ==
    RateLimitedRun =>
        /\ OtherProviderModels # {} => \E m \in OtherProviderModels : Suggests(m)
        /\ runRes.body.suggestion # NullV => \E m \in OtherProviderModels : Suggests(m)


(***************************************************************************)
(* Claims about the preflight checks (SpecPreflight)                       *)
(***************************************************************************)
\* a /preflight request for a valid boost tier for which no candidate exists
NoCandidate ==
    /\ phase = "preflight"
    /\ runReq.boost_tier \in {"turbo", "ultra"}
    /\ runRes.status = 200 => ~runRes.body.can_run

\* C21: for a valid boost tier without a candidate, /preflight answers 200
\* with can_run = false and a reason string as its message
C21_NoCandidateAnswersWithReason ==
    NoCandidate =>
        /\ runRes.status = 200
        /\ runRes.body.can_run = FALSE
        /\ runRes.body.message.t = "string"

\* C21, the divergence: a tier that holds no model is answered without a message
C21_EmptyTierHasNoMessage ==
    /\ NoCandidate
    /\ LET st == checkBoostTierExhaustion(runReq.boost_tier, db, cache, puter) IN
           st.total_models = 0
    /\ runRes.status = 200
    /\ runRes.body.can_run = FALSE
    /\ runRes.body.message = Undef

(***************************************************************************)
(* Claims about the boost tier of a /run request (SpecRun)                 *)
(***************************************************************************)
\* the models of the catalog that lie in the request's boost tier and match
\* what the request asks for: its model id, or else its capability under its
\* cost ceiling
TierMatches ==
    { m \in Range(buildModelList(db)) :
        /\ m.cost_tier = boostTierToCostTier(runReq.boost_tier)
        /\ IF runReq.model_id # "" THEN m.id = runReq.model_id
           ELSE /\ runReq.capability # "" => hasCapability(m, runReq.capability)
                /\ runReq.max_cost_tier # "" =>
                      indexOf(COST_TIER_ORDER, m.cost_tier)
                          <= indexOf(COST_TIER_ORDER, runReq.max_cost_tier) }

\* C22: with a boost tier, the model handed to a provider has the cost tier
\* the boost tier maps to, whatever model_id or max_cost_tier say; with no
\* matching model in that tier the request is rejected and no call is made
C22_DispatchStaysInBoostTier ==
    (phase = "done" /\ runReq.boost_tier \in {"turbo", "ultra"}) =>
        /\ outcome # NoResult =>
              /\ outcome.model.cost_tier = boostTierToCostTier(runReq.boost_tier)
              /\ \E m \in TierMatches :
                    m.id = outcome.model.id /\ m.provider = outcome.model.provider
        /\ TierMatches = {} =>
              /\ outcome = NoResult
              /\ runRes.status = 400
              /\ cache = cacheBefore /\ history = <<>> /\ recorded = <<>> /\ calls = 0

\* a turbo request names gpt-4, which the catalog holds as a credit-backed
\* model only: it is rejected without a call
C22_Witness ==
    /\ phase = "done"
    /\ runReq.boost_tier = "turbo" /\ runReq.model_id = "gpt-4"
    /\ \E m \in Range(buildModelList(db)) : m.id = "gpt-4" /\ m.cost_tier = "credit_backed"
    /\ TierMatches = {}
    /\ runRes.status = 400 /\ outcome = NoResult

\* an ultra request with a ceiling of paid is served by the credit-backed model
C22_WitnessDispatch ==
    /\ phase = "done"
    /\ runReq.boost_tier = "ultra" /\ runReq.max_cost_tier = "paid" /\ runReq.model_id = ""
    /\ outcome # NoResult /\ outcome.requests = 1
    /\ outcome.model.cost_tier = "credit_backed"
    /\ \E m \in Range(buildModelList(db)) : m.cost_tier = "remote_free"

(***************************************************************************)
(* Claims about rating updates (SpecRatings)                               *)
(***************************************************************************)
\* the ratings the last rating update set, when it succeeded
LastSet ==
    IF ratingRes # NoResult /\ ratingRes.status = 200
    THEN [ c \in (DOMAIN ratingRes.response.updates) \cap Range(RATING_FIELDS) |->
             ratingRes.response.updates[c].n ]
    ELSE <<>>

\* descriptor m carries the ratings the last update set for its model
CarriesLastSet(m) ==
    (ratingRes # NoResult /\ m.id = ratingRes.model_id) =>
        \A c \in DOMAIN LastSet : c \in DOMAIN m.ratings /\ m.ratings[c] = LastSet[c]

\* C23: after a rating update set model M's rating for capability c to v, the
\* catalog built later holds v as M's rating for c, and suggestModels and
\* pickModel score and order M with v
C23_CatalogMergesOverrides ==
    /\ phase \in {"built", "suggested", "picked"} =>
          \A i \in 1..Len(models) : CarriesLastSet(models[i])
    /\ phase = "suggested" =>
          \A i \in 1..Len(suggestions) :
              /\ CarriesLastSet(suggestions[i])
              /\ suggestions[i].score
                    = ratingOr0(suggestions[i].ratings,
                                IF req.capability # "" THEN req.capability ELSE "chat")
    /\ (phase = "picked" /\ picked.found) => CarriesLastSet(picked.model)

\* C23, the divergence: gpt-4 was just rated 5 for chat, above llama-3's 3,
\* and the chat suggestions still put llama-3 first and score gpt-4 with 1
C23_OverrideIgnored ==
    /\ phase = "suggested" /\ ratingRes # NoResult
    /\ ratingRes.status = 200 /\ ratingRes.model_id = "gpt-4"
    /\ "chat" \in DOMAIN LastSet /\ LastSet["chat"] = 5
    /\ overrides["gpt-4"]["chat"] = Num(5)
    /\ req.capability = "chat"
    /\ Len(suggestions) = 2
    /\ suggestions[1].id = "llama-3" /\ suggestions[1].score = 3
    /\ suggestions[2].id = "gpt-4" /\ suggestions[2].score = 1
    /\ pinokioRating(overrides, suggestions[2], "chat") = Num(5)

\* the persisted store holds exactly the overrides that are in memory
StoreHolds ==
    \/ overridesFile.kind = "json" /\ overridesFile.members = overrides
    \/ overridesFile.kind = "absent" /\ overrides = <<>>

\* C24: once a rating update has returned, the store equals the overrides in
\* memory; a rejected update changed neither, and an update whose write
\* failed is not visible in memory
C24_StoreEqualsMemory ==
    phase = "rated" =>
        /\ StoreHolds
        /\ ratingRes.status \in {400, 404} =>
              /\ overrides = ratingRes.overridesBefore
              /\ overridesFile = ratingRes.fileBefore
        /\ ratingRes.status = 500 => overrides = ratingRes.overridesBefore

\* C24, the divergence: the write was refused, the handler answered 500, the
\* store is as before and the update is in memory
C24_FailedWriteStaysInMemory ==
    /\ phase = "rated"
    /\ ratingRes.status = 500 /\ ratingRes.write = "refused"
    /\ overridesFile = ratingRes.fileBefore
    /\ overrides # ratingRes.overridesBefore
    /\ "gpt-4" \in DOMAIN overrides /\ overrides["gpt-4"]["chat"] = Num(5)
    /\ ~StoreHolds

\* C24 for the updates that are rejected: neither the memory nor the store changes
C24_RejectedUpdateChangesNothing ==
    (phase = "rated" /\ ratingRes.status \in {400, 404}) =>
        /\ overrides = ratingRes.overridesBefore
        /\ overridesFile = ratingRes.fileBefore

(***************************************************************************)
(* Claims about what provider calls write to the rate-limit cache          *)
(***************************************************************************)
\* the cache key the last callProvider invocation wrote, or would have written
CalledKey == getCacheKey(outcome.route, outcome.model.id)

\* the headers of the response the last callProvider invocation got
CalledHeaders == IF outcome.reply = NoResult THEN <<>> ELSE outcome.reply.headers

\* C25: a provider call creates or overwrites a rate-limit cache entry only
\* when its response carries at least one parseable quota header; a success
\* without any leaves the cache as it was
C25_OnlyQuotaHeadersWrite ==
    (phase = "running" /\ lastOp.op = "call") =>
        /\ cache # cacheBefore => parseRateLimitHeaders(CalledHeaders) # NoLimits
        /\ (~outcome.threw /\ parseRateLimitHeaders(CalledHeaders) = NoLimits)
              => cache = cacheBefore

\* C25, the divergence: an entry that said no request was left is replaced
\* by an entry without limits after a success without quota headers
C25_EntryWipedByPlainSuccess ==
    /\ phase = "running" /\ lastOp.op = "call"
    /\ ~outcome.threw /\ CalledHeaders = <<>>
    /\ CalledKey \in DOMAIN cacheBefore
    /\ cacheBefore[CalledKey].requests_remaining = Num(0)
    /\ cache[CalledKey].requests_remaining = NullV

\* the entry the calls for descriptor m left in the rate-limit cache says
\* that no request or no token remains
ReportedExhausted(m) ==
    LET key == getCacheKey(IF m.route # "" THEN m.route ELSE m.provider, m.id) IN
    /\ key \in DOMAIN cache
    /\ \/ cache[key].requests_remaining = Num(0)
       \/ cache[key].tokens_remaining = Num(0)

\* C26: once a call for a descriptor that draws on no credits came back with
\* a remaining-requests or remaining-tokens header of 0, isModelUsable says
\* unusable and checkBoostTierExhaustion lists it as unusable, until a later
\* call for it overwrites the entry
C26_ZeroQuotaMakesUnusable ==
    /\ (phase = "usability" /\ ~usesCredits(usability.model)
          /\ ReportedExhausted(usability.model))
          => ~usability.result.usable
    /\ (phase = "tier" /\ tierStatus.valid) =>
          \A m \in Range(buildModelList(db)) :
              (m.cost_tier = tierStatus.cost_tier /\ ~usesCredits(m) /\ ReportedExhausted(m))
                  => m.id \in Range(tierStatus.unusable_model_ids)

\* C26, the divergence: the descriptor whose route is not its provider stays
\* usable after its call reported that no request is left
C26_RouteKeyedEntryUnseen ==
    /\ phase = "usability"
    /\ usability.model.route # usability.model.provider
    /\ ~usesCredits(usability.model) /\ ReportedExhausted(usability.model)
    /\ usability.result.usable

\* C26 where route and provider agree: the verdict follows the cached zero
C26_SameRouteFollowsCache ==
    (phase = "usability" /\ usability.model.route = usability.model.provider
       /\ ~usesCredits(usability.model) /\ ReportedExhausted(usability.model))
        => ~usability.result.usable

\* C27: a callProvider invocation that fails leaves the rate-limit cache as
\* it was, and with it the usability verdict of every model; a changed cache
\* means the call returned
C27_FailedCallLeavesCache ==
    (phase = "running" /\ lastOp.op = "call") =>
        /\ outcome.threw =>
              /\ cache = cacheBefore
              /\ \A m \in Range(buildModelList(db)) :
                    isModelUsable(m, cache, puter).usable
                        = isModelUsable(m, cacheBefore, puter).usable
        /\ cache # cacheBefore => ~outcome.threw

\* a call answered 429 for a model whose cached entry says no request is left
C27_Witness ==
    /\ phase = "running" /\ lastOp.op = "call"
    /\ outcome.threw /\ outcome.requests = 1 /\ outcome.reply.status = 429
    /\ CalledKey \in DOMAIN cacheBefore
    /\ cacheBefore[CalledKey].requests_remaining = Num(0)
    /\ cache = cacheBefore

\* C28: a /preflight or /api/preflight/batch request makes no provider call
\* and leaves the rate-limit cache, the health histories and the ratings
\* overrides as they were; the same batch sent again gets the same answer,
\* so the usage simulated for the first one is gone
C28_PreflightLeavesServicesAlone ==
    [][ phase' \in {"preflight", "batch"} =>
          /\ cache' = cache
          /\ history' = history /\ recorded' = recorded
          /\ overrides' = overrides /\ overridesFile' = overridesFile
          /\ calls' = calls /\ outcome' = outcome
          /\ (phase = "batch" /\ runReq' = runReq) => runRes' = runRes ]_vars

\* a batch of two tasks for the same model whose provider has one request
\* left: the first is granted, the second is blocked by the simulated usage
C28_Witness ==
    /\ phase = "batch"
    /\ runRes.status = 200
    /\ cache # <<>> /\ history # <<>>
    /\ Len(runRes.body.results) = 2
    /\ runReq.tasks.ids[1] = runReq.tasks.ids[2]
    /\ runRes.body.results[1].can_run
    /\ ~runRes.body.results[2].can_run
    /\ runRes.body.results[2].estimated_wait_seconds # Undef

(***************************************************************************)
(* Claims about the database cache (SpecDatabase)                          *)
(***************************************************************************)
\* the last call was a loadDb that found a snapshot younger than 60 seconds
FoundFresh ==
    /\ loaded.op = "loadDb"
    /\ loaded.serviceBefore.cachedDb # NullV
    /\ loaded.at - loaded.serviceBefore.lastLoadTime < 60000

C29_WitnessFailedReread ==
    /\ loaded # NoResult /\ loaded.op = "loadDb" /\ phase = "loaded"
    /\ loaded.serviceBefore.cachedDb # NullV
    /\ loaded.at - loaded.serviceBefore.lastLoadTime = 60000
    /\ loaded.read /\ loaded.threw /\ loaded.file.kind = "corrupt"
    /\ dbCache = loaded.serviceBefore

(***************************************************************************)
(* Claims about concurrent writes to the rate-limit cache (SpecRace)       *)
(***************************************************************************)
\* C30: with calls for the same (provider, model) in flight together, the
\* cached entry is at every moment the whole header snapshot of the one
\* response that was processed last for that key, taken at the time it was
\* processed; it never holds fields of two responses
C30_LastProcessedResponseWins ==
    /\ DOMAIN cache = DOMAIN lastOp.processed
    /\ \A key \in DOMAIN cache :
          cache[key] = cachedEntry(parseRateLimitHeaders(lastOp.processed[key].headers),
                                   lastOp.processed[key].at)
    /\ \A key \in DOMAIN cache :
          \E reply \in upstream :
              \A f \in DOMAIN NoLimits :
                  cache[key][f] = parseRateLimitHeaders(reply.headers)[f]

\* two calls for one key overlapped and the one begun first was processed
\* last: its request quota is cached, the token quota the other one had
\* stored is gone
C30_Witness ==
    /\ lastOp.op = "complete" /\ inflight = {} /\ calls = 2
    /\ LET key == getCacheKey(lastOp.provider, lastOp.modelId) IN
          /\ key \in DOMAIN cacheBefore /\ key \in DOMAIN cache
          /\ lastOp.n = 1 /\ lastOp.processed[key].n = 1
          /\ cacheBefore[key].tokens_remaining = Num(0)
          /\ cacheBefore[key].requests_remaining = NullV
          /\ cache[key].tokens_remaining = NullV
          /\ cache[key].requests_remaining = Num(5)

====
